---- MODULE Spec2Model ----
(***************************************************************************)
(* Tool execution and security validation pipeline of open-cli:            *)
(* SafetyManager, SecureSafetyManager, RateLimiter, ErrorUtils.retry and   *)
(* CoreManager.executeToolCalls with the built-in file tools.              *)
(*                                                                         *)
(* Strings are sequences of one-character strings, so that startsWith,     *)
(* split and the path functions of node's posix `path` module are computed *)
(* on characters as the code computes them.                                *)
(***************************************************************************)
EXTENDS Integers, Sequences, FiniteSets, TLC

VARIABLES
    fs,            \* the filesystem: node path -> [kind, target, size, content]
    smConfig,      \* SafetyManager: the SafetyConfig in force
    smPath,        \* SafetyManager: the requested path of the last validateFilePath
    smResult,      \* SafetyManager: the result of the last validateFilePath
    ssConfig,      \* SecureSafetyManager: the SecurityConfig in force
    ssQueue,       \* the [path, operation, root] requests callers make of validateFilePath
    ssCalls,       \* SecureSafetyManager: the calls of validateFilePath made so far
    accessLog,     \* SecureSafetyManager.accessLog
    handler,       \* the ConfirmationHandler behind the ConfirmationManager
    toolCalls,     \* the tool calls of the model response being processed
    callIdx,       \* executeToolCalls: index of the call being processed
    pc,            \* executeToolCalls: where the processing of that call stands
    confirmation,  \* the ConfirmationResponse to the current call's request
    conversation,  \* the 'tool' messages pushed to the conversation
    stages,        \* per call, the steps taken for it so far, in order
    locals,        \* invocation.execute: what it holds across its awaits
    fsBefore,      \* the filesystem the current call found, with what other
                   \* processes have written since
    abortFired,    \* sendMessage: the caller's abortSignal has fired
    rlConfig,      \* RateLimiter.config
    algorithm,     \* RateLimiter.algorithm
    entries,       \* RateLimiter.entries: key -> [count, windowStart, lastRequest]
    now,           \* Date.now(), in milliseconds
    totalRequests, \* RateLimiter.totalRequests
    blockedRequests, \* RateLimiter.blockedRequests
    rlLast,        \* the last call on the limiter, its result and the error it raised
    windows,       \* per key, the window its calls so far define and what it saw
    buckets,       \* per key, the burst and the emptying its callers saw of a token bucket
    expectation,   \* what that window says about the last call
    unswept,       \* the entries the same calls leave in a limiter that is never swept
    cleanupInterval, \* RateLimiter.cleanupInterval: the sweep timer is set
    retryConfig,   \* ErrorUtils.retry: finalConfig
    attempt,       \* ErrorUtils.retry: the loop variable
    retryPc,       \* ErrorUtils.retry: where the call stands
    lastError,     \* ErrorUtils.retry: lastError
    thrown,        \* ErrorUtils.retry: the value the call threw
    trace,         \* ErrorUtils.retry: invocations, callbacks and sleeps, in order
    tools,         \* ToolRegistry.tools: the registered tools, in insertion order
    regLast,       \* the last call on the registry, the registry before it, its outcome
    ctrlCCount,    \* OpenCLI.ctrlCCount
    timers,        \* OpenCLI: the times at which the pending reset timers are due, oldest first
    clock,         \* OpenCLI: the time, in milliseconds
    exited,        \* OpenCLI: process.exit(0) has been called
    mainPc,        \* OpenCLI.mainLoop: the call it awaits
    answer,        \* OpenCLI.mainLoop: the line askQuestion resolved with
    cliLast,       \* OpenCLI: the last event, and the press before it if no line came between
    modelFound,    \* CoreManager.sendMessage: the model registry knows modelName
    attempts,      \* CoreManager.sendMessage: attempts
    sendPc,        \* CoreManager.sendMessage: where the call stands
    modelResponse, \* CoreManager.sendMessage: the response of the last model call
    turn,          \* the messages sendMessage pushed to the conversation, by role
    modelCalls,    \* the number of model.sendMessage calls made for the user message
    withTools,     \* how many of the responses received carried tool calls
    sendOutcome    \* CoreManager.sendMessage: what the call returned or threw

(***************************************************************************)
(* Bounds of the model.                                                    *)
(***************************************************************************)
\* longest requested path, in segments
MaxSegs == 2
\* depth to which chains of symbolic links are followed (ELOOP beyond)
MaxLinkDepth == 2
\* most tool calls in one model response
MaxCalls == 2
\* largest requestsPerMinute and burstLimit
MaxRate == 2
\* largest windowSizeMs, in milliseconds
MaxWindow == 3
\* the clock stops at MaxNow milliseconds
MaxNow == 4
\* most calls made on one rate limiter
MaxRequests == 3
\* largest maxAttempts passed to ErrorUtils.retry
MaxAttempts == 3
\* distinct tool objects that carry the same name
MaxToolVersions == 2
\* the clock of the CLI advances in steps of TickMs, MaxTicks times at most
TickMs == 1000
MaxTicks == 5
\* most reset timers of the CLI pending at once
MaxTimers == 2

(***************************************************************************)
(* Characters and strings.                                                 *)
(***************************************************************************)
Sep == "/"
Dot == <<".">>
DotDot == <<".", ".">>
EmptyStr == <<>>
NUL == "0"

StartsWith(s, prefix) ==
    /\ Len(prefix) <= Len(s)
    /\ SubSeq(s, 1, Len(prefix)) = prefix

EndsWith(s, suffix) ==
    /\ Len(suffix) <= Len(s)
    /\ SubSeq(s, Len(s) - Len(suffix) + 1, Len(s)) = suffix

Last(s) == s[Len(s)]

ButLast(s) == SubSeq(s, 1, Len(s) - 1)

\* s.split('/'): the segments between separators (at least one, possibly empty)
RECURSIVE SplitFrom(_, _, _)
SplitFrom(s, i, cur) ==
    IF i > Len(s) THEN <<cur>>
    ELSE IF s[i] = Sep THEN <<cur>> \o SplitFrom(s, i + 1, <<>>)
    ELSE SplitFrom(s, i + 1, Append(cur, s[i]))

Split(s) == SplitFrom(s, 1, <<>>)

\* segs.join('/')
RECURSIVE JoinSegs(_)
JoinSegs(segs) ==
    IF Len(segs) = 0 THEN <<>>
    ELSE IF Len(segs) = 1 THEN segs[1]
    ELSE segs[1] \o <<Sep>> \o JoinSegs(Tail(segs))

(***************************************************************************)
(* node:path (posix).                                                      *)
(***************************************************************************)
IsAbsolute(p) == Len(p) > 0 /\ p[1] = Sep

\* normalizeString: the segments left after dropping '' and '.', and letting
\* '..' remove the segment before it (or stay, above the start of a relative path)
RECURSIVE NormalizeSegs(_, _, _)
NormalizeSegs(segs, acc, allowAboveRoot) ==
    IF Len(segs) = 0 THEN acc
    ELSE LET seg == Head(segs)
             rest == Tail(segs)
         IN IF seg = <<>> \/ seg = Dot
              THEN NormalizeSegs(rest, acc, allowAboveRoot)
            ELSE IF seg = DotDot
              THEN IF Len(acc) > 0 /\ Last(acc) # DotDot
                     THEN NormalizeSegs(rest, ButLast(acc), allowAboveRoot)
                   ELSE IF allowAboveRoot
                     THEN NormalizeSegs(rest, Append(acc, DotDot), allowAboveRoot)
                   ELSE NormalizeSegs(rest, acc, allowAboveRoot)
            ELSE NormalizeSegs(rest, Append(acc, seg), allowAboveRoot)

NormalizeString(p, allowAboveRoot) ==
    JoinSegs(NormalizeSegs(Split(p), <<>>, allowAboveRoot))

\* path.normalize
PathNormalize(p) ==
    IF Len(p) = 0 THEN Dot
    ELSE LET isAbs == IsAbsolute(p)
             trailing == Last(p) = Sep
             body == NormalizeString(p, ~isAbs)
         IN IF Len(body) = 0
              THEN IF isAbs THEN <<Sep>>
                   ELSE IF trailing THEN Dot \o <<Sep>> ELSE Dot
            ELSE (IF isAbs THEN <<Sep>> ELSE <<>>) \o body
                 \o (IF trailing THEN <<Sep>> ELSE <<>>)

\* path.resolve(p) with the process working directory cwd
PathResolve(cwd, p) ==
    LET full == IF IsAbsolute(p) THEN p
                ELSE IF Len(p) = 0 THEN cwd
                ELSE cwd \o <<Sep>> \o p
        body == NormalizeString(full, FALSE)
    IN <<Sep>> \o body

\* the segments of an absolute, normalized path ('/' has none)
AbsSegs(p) == NormalizeSegs(Split(p), <<>>, FALSE)

FromSegs(segs) == <<Sep>> \o JoinSegs(segs)

RECURSIVE CommonPrefixLen(_, _)
CommonPrefixLen(a, b) ==
    IF Len(a) = 0 \/ Len(b) = 0 \/ Head(a) # Head(b) THEN 0
    ELSE 1 + CommonPrefixLen(Tail(a), Tail(b))

\* path.relative(from, to), both already absolute and normalized
PathRelative(from, to) ==
    LET a == AbsSegs(from)
        b == AbsSegs(to)
        k == CommonPrefixLen(a, b)
        ups == [i \in 1..(Len(a) - k) |-> DotDot]
    IN JoinSegs(ups \o SubSeq(b, k + 1, Len(b)))

(***************************************************************************)
(* The filesystem.  fs maps the path of every existing node to its record; *)
(* a path outside DOMAIN fs does not exist.                                *)
(***************************************************************************)
NameP == <<"p">>
NamePQ == <<"p", "q">>
NameQ == <<"q">>
NameF == <<"f">>
NameD == <<"d">>
NameL == <<"l">>
NameM == <<"m">>
NameN == <<"n">>
NameFT == <<"f", ".", "t">>
NameHidden == <<".", "h">>

\* the workspace root, which is also the working directory of the process
RootDir == <<Sep>> \o NameP
Cwd == RootDir
SiblingDir == <<Sep>> \o NamePQ
OutsideDir == <<Sep>> \o NameQ

\* the st_size fs.stat reports for a directory: one block of the filesystem
DirectorySize == 4096

DirNode == [kind |-> "dir", target |-> <<>>, size |-> DirectorySize, content |-> <<>>]
FileNode(content) ==
    [kind |-> "file", target |-> <<>>, size |-> Len(content), content |-> content]
LinkNode(target) == [kind |-> "link", target |-> target, size |-> 0, content |-> <<>>]

Child(dir, name) == (IF dir = <<Sep>> THEN dir ELSE dir \o <<Sep>>) \o name

\* the files and directories of every world
BaseFs ==
    (<<Sep>> :> DirNode)
    @@ (RootDir :> DirNode)
    @@ (Child(RootDir, NameF) :> FileNode(<<"o", "o">>))
    @@ (Child(RootDir, NameFT) :> FileNode(<<"o">>))
    @@ (Child(RootDir, NameHidden) :> FileNode(<<"o">>))
    @@ (Child(RootDir, NameD) :> DirNode)
    @@ (SiblingDir :> DirNode)
    @@ (Child(SiblingDir, NameF) :> FileNode(<<"o">>))
    @@ (OutsideDir :> DirNode)
    @@ (Child(OutsideDir, NameF) :> FileNode(<<"o", "o">>))

\* a symbolic link inside the root to a directory outside it, and a dangling
\* link inside the root whose target is a file outside that does not exist yet
LinkFs ==
    (Child(RootDir, NameL) :> LinkNode(OutsideDir))
    @@ (Child(RootDir, NameM) :> LinkNode(Child(OutsideDir, NameN)))

FsWorlds == {BaseFs, BaseFs @@ LinkFs}

Kind(f, node) == IF node \in DOMAIN f THEN f[node].kind ELSE "none"

OsError(code) == [ok |-> FALSE, path |-> <<>>, exists |-> FALSE, code |-> code]

\* The kernel's path walk over the raw segments of a path: '' and '.' stay,
\* '..' goes to the parent of the directory reached so far, a symbolic link is
\* followed, a missing component is ENOENT unless it is the last one and
\* `create` says the call may create it.
RECURSIVE OsWalk(_, _, _, _, _)
OsWalk(f, cur, rest, depth, create) ==
    IF Len(rest) = 0 THEN [ok |-> TRUE, path |-> FromSegs(cur), exists |-> TRUE, code |-> ""]
    ELSE LET seg == Head(rest)
             more == Tail(rest)
         IN IF seg = <<>> \/ seg = Dot THEN OsWalk(f, cur, more, depth, create)
            ELSE IF seg = DotDot
              THEN OsWalk(f, IF Len(cur) = 0 THEN cur ELSE ButLast(cur), more, depth, create)
            ELSE LET next == Append(cur, seg)
                     node == FromSegs(next)
                     kind == Kind(f, node)
                 IN IF kind = "none"
                      THEN IF create /\ Len(more) = 0
                             THEN [ok |-> TRUE, path |-> node, exists |-> FALSE, code |-> ""]
                           ELSE OsError("ENOENT")
                    ELSE IF kind = "link"
                      THEN IF depth = 0
                             THEN OsError("ELOOP")
                           ELSE OsWalk(f, <<>>, AbsSegs(f[node].target) \o more,
                                       depth - 1, create)
                    ELSE IF kind = "file" /\ Len(more) > 0
                      THEN OsError("ENOTDIR")
                    ELSE OsWalk(f, next, more, depth, create)

\* a path with a null byte: node:fs refuses it (ERR_INVALID_ARG_VALUE) before
\* any system call is made
HasNullByte(p) == \E i \in 1..Len(p) : p[i] = NUL

\* the walk of a path given to a system call, relative paths starting at cwd
OsResolve(f, cwd, p, create) ==
    IF HasNullByte(p) THEN OsError("ERR_INVALID_ARG_VALUE")
    ELSE IF Len(p) = 0 THEN OsError("ENOENT")
    ELSE OsWalk(f, IF IsAbsolute(p) THEN <<>> ELSE AbsSegs(cwd), Split(p),
                MaxLinkDepth, create)

\* fs.realpath: the canonical path of an existing node
Realpath(f, cwd, p) == OsResolve(f, cwd, p, FALSE)

\* fs.access(p): does the path lead to an existing node
FsAccess(f, cwd, p) == OsResolve(f, cwd, p, FALSE).ok

\* the message of a system error: "<code>: <description>, <syscall>", which
\* Node follows with the quoted path when the call was given one; the message
\* of the refusal of a path with a null byte ends with the path as well
ErrnoText(code) ==
    IF code = "ENOENT" THEN "ENOENT: no such file or directory"
    ELSE IF code = "ENOTDIR" THEN "ENOTDIR: not a directory"
    ELSE IF code = "EISDIR" THEN "EISDIR: illegal operation on a directory"
    ELSE IF code = "EEXIST" THEN "EEXIST: file already exists"
    ELSE "ELOOP: too many symbolic links encountered"

SystemError(code, syscall) ==
    IF code = "ERR_INVALID_ARG_VALUE"
      THEN "The argument 'path' must be a string, Uint8Array, or URL without null bytes."
           \o " Received "
    ELSE ErrnoText(code) \o ", " \o syscall

(***************************************************************************)
(* SafetyManager (the validator of the built-in tools).                    *)
(***************************************************************************)
NoReason == [msg |-> "", arg |-> <<>>]

\* the configuration CoreManager builds from the CLI's CoreConfig:
\* maxFileSize: 10 * 1024 * 1024
CoreSafetyConfig ==
    [rootDirectory |-> RootDir, blockedPaths |-> <<>>, allowedExtensions |-> {},
     maxFileSize |-> 10 * 1024 * 1024]

SafetyConfigs ==
    { CoreSafetyConfig,
      [CoreSafetyConfig EXCEPT !.blockedPaths = <<NameD>>],
      [CoreSafetyConfig EXCEPT !.blockedPaths = <<JoinSegs(<<NameD, NameF>>), NameD>>],
      [CoreSafetyConfig EXCEPT !.allowedExtensions = {<<"T">>}],
      [CoreSafetyConfig EXCEPT !.maxFileSize = 1] }

\* SafetyManager.validateFilePath; blockedPaths is an array, walked in its
\* order, and the first entry the relative path starts with is reported
SMValidateFilePath(config, cwd, filePath) ==
    LET absolutePath == PathResolve(cwd, filePath)
        rootPath == PathResolve(cwd, config.rootDirectory)
        relativePath == PathRelative(rootPath, absolutePath)
        blocked == { i \in DOMAIN config.blockedPaths :
                       StartsWith(relativePath, config.blockedPaths[i]) }
        blockedPath == config.blockedPaths[CHOOSE i \in blocked : \A k \in blocked : i <= k]
    IN IF ~StartsWith(absolutePath, rootPath)
         THEN [valid |-> FALSE,
               reason |-> [msg |-> "Path must be within root directory: ", arg |-> rootPath],
               safePath |-> <<>>]
       ELSE IF blocked # {}
         THEN [valid |-> FALSE,
               reason |-> [msg |-> "Path is blocked: ", arg |-> blockedPath],
               safePath |-> <<>>]
       ELSE [valid |-> TRUE, reason |-> NoReason, safePath |-> absolutePath]

(***************************************************************************)
(* More of node:path, as SecureSafetyManager uses it.                      *)
(***************************************************************************)
\* index of the last separator that ends the directory part, scanning from the
\* end over trailing separators (0 when there is none after position 1)
RECURSIVE DirnameEnd(_, _, _)
DirnameEnd(p, i, matchedSlash) ==
    IF i < 2 THEN 0
    ELSE IF p[i] = Sep
      THEN IF ~matchedSlash THEN i ELSE DirnameEnd(p, i - 1, matchedSlash)
    ELSE DirnameEnd(p, i - 1, FALSE)

\* path.dirname
PathDirname(p) ==
    IF Len(p) = 0 THEN Dot
    ELSE LET end == DirnameEnd(p, Len(p), TRUE)
         IN IF end = 0 THEN (IF IsAbsolute(p) THEN <<Sep>> ELSE Dot)
            ELSE IF IsAbsolute(p) /\ end = 2 THEN <<Sep, Sep>>
            ELSE SubSeq(p, 1, end - 1)

RECURSIVE StripTrailingSeps(_)
StripTrailingSeps(p) ==
    IF Len(p) > 0 /\ Last(p) = Sep THEN StripTrailingSeps(ButLast(p)) ELSE p

\* path.basename: the last segment, trailing separators ignored
PathBasename(p) ==
    LET stripped == StripTrailingSeps(p)
    IN IF Len(stripped) = 0 THEN <<>> ELSE Last(Split(stripped))

\* path.join(a, b)
PathJoin(a, b) ==
    LET joined == IF Len(a) = 0 THEN b
                  ELSE IF Len(b) = 0 THEN a
                  ELSE a \o <<Sep>> \o b
    IN PathNormalize(joined)

RECURSIVE LastIndexOf(_, _, _)
LastIndexOf(s, c, i) ==
    IF i = 0 THEN 0 ELSE IF s[i] = c THEN i ELSE LastIndexOf(s, c, i - 1)

\* path.extname: from the last '.' of the basename, unless the basename starts
\* with that dot or is '..'
PathExtname(p) ==
    LET base == PathBasename(p)
        dot == LastIndexOf(base, ".", Len(base))
    IN IF dot <= 1 \/ base = DotDot THEN <<>> ELSE SubSeq(base, dot, Len(base))

LowerOf(c) == IF c = "T" THEN "t" ELSE IF c = "F" THEN "f" ELSE c

\* String.prototype.toLowerCase
ToLowerCase(s) == [i \in 1..Len(s) |-> LowerOf(s[i])]

\* String.prototype.replace(/\\/g, '/')
BackslashToSlash(s) == [i \in 1..Len(s) |-> IF s[i] = "\\" THEN Sep ELSE s[i]]

(***************************************************************************)
(* SecureSafetyManager.                                                    *)
(***************************************************************************)
MaxAccessLogEntries == 1000

WindowsInvalidChars == {"<", ">", ":", "\"", "|", "?", "*"}
WhitespaceChars == {" ", "\t", "\n"}

\* /\.\.[/\\]/ and /[/\\]\.\./
HasTraversalPattern(s) ==
    \E i \in 1..(Len(s) - 2) :
        \/ s[i] = "." /\ s[i + 1] = "." /\ s[i + 2] \in {Sep, "\\"}
        \/ s[i] \in {Sep, "\\"} /\ s[i + 1] = "." /\ s[i + 2] = "."

\* SecureSafetyManager.containsMaliciousPatterns
ContainsMaliciousPatterns(filePath) ==
    \/ HasTraversalPattern(filePath)
    \/ \E i \in 1..Len(filePath) : filePath[i] = NUL
    \/ \E i \in 1..Len(filePath) : filePath[i] \in WindowsInvalidChars
    \/ \A i \in 1..Len(filePath) : filePath[i] \in WhitespaceChars

\* SecureSafetyManager.isWithinRoot
IsWithinRoot(canonicalPath, canonicalRoot) ==
    LET normalizedRoot == IF EndsWith(canonicalRoot, <<Sep>>) THEN canonicalRoot
                          ELSE canonicalRoot \o <<Sep>>
        normalizedPath == IF EndsWith(canonicalPath, <<Sep>>) THEN canonicalPath
                          ELSE canonicalPath \o <<Sep>>
    IN StartsWith(normalizedPath, normalizedRoot) \/ canonicalPath = canonicalRoot

\* SecureSafetyManager.isPathBlocked
IsPathBlocked(config, relativePath) ==
    LET normalizedPath == BackslashToSlash(PathNormalize(relativePath))
    IN \E blockedPath \in config.blockedPaths :
          StartsWith(normalizedPath, BackslashToSlash(PathNormalize(blockedPath)))

\* SecureSafetyManager.validateFileExtension (allowed or not)
ExtensionAllowed(config, filePath) ==
    \/ config.allowedExtensions = {}
    \/ LET extension == ToLowerCase(PathExtname(filePath))
       IN \E ext \in config.allowedExtensions :
             LET lower == ToLowerCase(ext)
                 normalizedExt == IF StartsWith(lower, Dot) THEN lower ELSE Dot \o lower
             IN normalizedExt = extension

\* a size check that passes every file
FileSizeUnchecked(config, f, cwd, filePath) == "ok"

\* SecureSafetyManager.validateFileSize: "ok", "too_large", or "error" when
\* fs.stat fails with anything but ENOENT
FileSizeCheck(config, f, cwd, filePath) ==
    IF config.maxFileSize = 0 THEN "ok"
    ELSE LET st == OsResolve(f, cwd, filePath, FALSE)
         IN IF ~st.ok THEN (IF st.code = "ENOENT" THEN "ok" ELSE "error")
            ELSE IF f[st.path].size > config.maxFileSize THEN "too_large"
            ELSE "ok"

\* the try/catch ladder that computes canonicalPath
CanonicalPath(f, cwd, normalizedPath) ==
    LET direct == Realpath(f, cwd, PathResolve(cwd, normalizedPath))
        dir == PathDirname(normalizedPath)
        filename == PathBasename(normalizedPath)
        canonicalDir == Realpath(f, cwd, PathResolve(cwd, dir))
    IN IF direct.ok THEN direct.path
       ELSE IF canonicalDir.ok THEN PathJoin(canonicalDir.path, filename)
       ELSE PathResolve(cwd, normalizedPath)

SecurityConfigs ==
    LET default == [enablePathTraversalProtection |-> TRUE, blockedPaths |-> {},
                    allowedExtensions |-> {}, maxFileSize |-> 10, maxRequestSize |-> 10]
    IN { default,
         [default EXCEPT !.blockedPaths = {NameD}],
         [default EXCEPT !.allowedExtensions = {<<"T">>}],
         [default EXCEPT !.maxFileSize = 1],
         [default EXCEPT !.maxFileSize = DirectorySize],
         [default EXCEPT !.enablePathTraversalProtection = FALSE] }

FileOperations == {"read", "write", "delete", "stat", "access", "list"}

NoSecureResult == [allowed |-> FALSE, reason |-> NoReason, canonicalPath |-> <<>>]

\* A call of validateFilePath: its request, the system call it awaits (pc), the
\* canonical path and root it holds, and the result once it has returned.
NewCall(request) ==
    [request |-> request, pc |-> "start", canonicalPath |-> <<>>, canonicalRoot |-> <<>>,
     result |-> NoSecureResult]

\* logAndReturn, but for the push to the access log
LogAndReturn(call, allowed, msg, arg) ==
    [call EXCEPT !.pc = "returned",
                 !.result = [allowed |-> allowed, reason |-> [msg |-> msg, arg |-> arg],
                             canonicalPath |-> call.canonicalPath]]

\* validateFilePath up to its first await: the malicious pattern check
SSStart(call) ==
    IF ContainsMaliciousPatterns(PathNormalize(call.request.path))
      THEN LogAndReturn(call, FALSE, "Path contains malicious patterns", <<>>)
    ELSE [call EXCEPT !.pc = "realpath"]

\* the realpath of the resolved path has completed
SSRealpath(f, cwd, call) ==
    LET direct == Realpath(f, cwd, PathResolve(cwd, PathNormalize(call.request.path)))
    IN IF direct.ok THEN [call EXCEPT !.pc = "realpath_root", !.canonicalPath = direct.path]
       ELSE [call EXCEPT !.pc = "realpath_dir"]

\* the realpath of the directory of a path that does not exist has completed
SSRealpathDir(f, cwd, call) ==
    LET normalizedPath == PathNormalize(call.request.path)
        canonicalDir == Realpath(f, cwd, PathResolve(cwd, PathDirname(normalizedPath)))
    IN [call EXCEPT !.pc = "realpath_root",
                    !.canonicalPath =
                        IF canonicalDir.ok
                          THEN PathJoin(canonicalDir.path, PathBasename(normalizedPath))
                        ELSE PathResolve(cwd, normalizedPath)]

\* the realpath of the root has completed (rootDirectory || process.cwd(); a
\* failure goes to the catch block): the containment, blocked path and
\* extension checks, up to the size check of a read or stat
SSRealpathRoot(config, f, cwd, call) ==
    LET root == IF Len(call.request.root) > 0 THEN call.request.root ELSE cwd
        rootReal == Realpath(f, cwd, PathResolve(cwd, root))
        canonicalPath == call.canonicalPath
        canonicalRoot == rootReal.path
        relativePath == PathRelative(canonicalRoot, canonicalPath)
    IN IF ~rootReal.ok
         THEN LogAndReturn(call, FALSE,
                           "Validation error: " \o SystemError(rootReal.code, "realpath"),
                           PathResolve(cwd, root))
       ELSE IF config.enablePathTraversalProtection
               /\ ~IsWithinRoot(canonicalPath, canonicalRoot)
         THEN LogAndReturn(call, FALSE, "Path outside allowed root directory: ",
                           canonicalRoot)
       ELSE IF IsPathBlocked(config, relativePath)
         THEN LogAndReturn(call, FALSE, "Path is explicitly blocked: ", relativePath)
       ELSE IF ~ExtensionAllowed(config, canonicalPath)
         THEN LogAndReturn(call, FALSE, "File extension not allowed: ",
                           ToLowerCase(PathExtname(canonicalPath)))
       ELSE IF call.request.operation \in {"read", "stat"}
         THEN [call EXCEPT !.pc = "stat", !.canonicalRoot = canonicalRoot]
       ELSE LogAndReturn([call EXCEPT !.canonicalRoot = canonicalRoot], TRUE, "", <<>>)

\* the stat of validateFileSize has completed
SSStat(config, f, cwd, call) ==
    CHOOSE returned \in
      { IF sizeCheck = "too_large"
          THEN LogAndReturn(call, FALSE, "File size exceeds maximum", <<>>)
        ELSE IF sizeCheck = "error"
          THEN LogAndReturn(call, FALSE, "Validation error: Failed to check file size", <<>>)
        ELSE LogAndReturn(call, TRUE, "", <<>>)
        : sizeCheck \in {FileSizeCheck(config, f, cwd, call.canonicalPath)} } : TRUE

\* the next step of a call
SSStep(config, f, cwd, call) ==
    IF call.pc = "start" THEN SSStart(call)
    ELSE IF call.pc = "realpath" THEN SSRealpath(f, cwd, call)
    ELSE IF call.pc = "realpath_dir" THEN SSRealpathDir(f, cwd, call)
    ELSE IF call.pc = "realpath_root" THEN SSRealpathRoot(config, f, cwd, call)
    ELSE SSStat(config, f, cwd, call)

RECURSIVE SSRun(_, _, _, _)
SSRun(config, f, cwd, call) ==
    IF call.pc = "returned" THEN call
    ELSE SSRun(config, f, cwd, SSStep(config, f, cwd, call))

\* SecureSafetyManager.validateFilePath: the SecurityValidationResult of a call
\* during which nothing else runs
SSValidateFilePath(config, f, cwd, requestedPath, operation, rootDirectory) ==
    SSRun(config, f, cwd,
          NewCall([path |-> requestedPath, operation |-> operation,
                   root |-> rootDirectory])).result

\* a log that never drops an entry
LogAppendUnbounded(log, request, result) ==
    Append(log, [operation |-> request.operation, requestedPath |-> request.path,
                 canonicalPath |-> result.canonicalPath, allowed |-> result.allowed,
                 reason |-> result.reason])

\* a log whose entries keep the flag the attempt was created with
LogAppendStale(log, request, result) ==
    LET pushed ==
          Append(log, [operation |-> request.operation, requestedPath |-> request.path,
                       canonicalPath |-> result.canonicalPath,
                       allowed |-> FALSE, reason |-> result.reason])
    IN IF Len(pushed) > MaxAccessLogEntries THEN Tail(pushed) ELSE pushed

\* SecureSafetyManager.logAndReturn: the access log after one more attempt
LogAppend(log, request, result) ==
    LET logged == [operation |-> request.operation, requestedPath |-> request.path,
                    canonicalPath |-> result.canonicalPath, allowed |-> result.allowed,
                    reason |-> result.reason]
        pushed == Append(log, logged)
    IN IF Len(pushed) > MaxAccessLogEntries THEN Tail(pushed) ELSE pushed

(***************************************************************************)
(* SafetyManager.validateFile and its extension and size checks.           *)
(***************************************************************************)
\* SafetyManager.validateFileExtension
SMValidateFileExtension(config, filePath) ==
    LET extension == ToLowerCase(PathExtname(filePath))
        allowed == \E ext \in config.allowedExtensions :
                      \/ ToLowerCase(ext) = extension
                      \/ ToLowerCase(ext) = SubSeq(extension, 2, Len(extension))
    IN IF config.allowedExtensions = {} \/ allowed
         THEN [valid |-> TRUE, reason |-> NoReason, safePath |-> <<>>]
       ELSE [valid |-> FALSE,
             reason |-> [msg |-> "File extension not allowed: ", arg |-> extension],
             safePath |-> <<>>]

\* SafetyManager.validateFileSize: a failing stat counts as valid
SMValidateFileSize(config, f, cwd, filePath) ==
    LET st == OsResolve(f, cwd, filePath, FALSE)
    IN IF config.maxFileSize # 0 /\ st.ok /\ f[st.path].size > config.maxFileSize
         THEN [valid |-> FALSE,
               reason |-> [msg |-> "File size exceeds maximum", arg |-> <<>>],
               safePath |-> <<>>]
       ELSE [valid |-> TRUE, reason |-> NoReason, safePath |-> <<>>]

\* SafetyManager.validateFile up to its await: the path and extension checks
SMValidateFileStart(config, cwd, filePath) ==
    CHOOSE result \in
      { IF ~pathResult.valid THEN pathResult
        ELSE CHOOSE r \in
               { IF ~extensionResult.valid THEN extensionResult
                 ELSE [valid |-> TRUE, reason |-> NoReason, safePath |-> pathResult.safePath]
                 : extensionResult \in
                     {SMValidateFileExtension(config, pathResult.safePath)} } : TRUE
        : pathResult \in {SMValidateFilePath(config, cwd, filePath)} } : TRUE

\* SafetyManager.validateFile: the size check is made for a read only
SMValidateFile(config, f, cwd, filePath, operation) ==
    CHOOSE result \in
      { IF ~started.valid THEN started
        ELSE IF operation = "read"
                /\ ~SMValidateFileSize(config, f, cwd, started.safePath).valid
          THEN SMValidateFileSize(config, f, cwd, started.safePath)
        ELSE started
        : started \in {SMValidateFileStart(config, cwd, filePath)} } : TRUE

(***************************************************************************)
(* Requested paths: every path of at most MaxSegs segments over the names  *)
(* of the world, '.', '..' and the empty segment, absolute or relative.    *)
(***************************************************************************)
InputSegs == {NameP, NamePQ, NameQ, NameF, NameFT, NameD, NameL, NameM, NameN, DotDot, Dot, <<>>}

SegSeqs(n) == UNION { [1..k -> InputSegs] : k \in 0..n }

\* some longer requests: deep traversal, a new file below a missing directory
\* behind a link, and a '..' after a directory that does not exist
DeepPaths ==
    { JoinSegs(<<DotDot, DotDot, NameQ, NameF>>),
      JoinSegs(<<NameD, DotDot, DotDot, DotDot, NameQ, NameF>>),
      JoinSegs(<<NameL, NameN, NameF>>),
      JoinSegs(<<NameN, DotDot, NameF>>),
      <<Sep>> \o JoinSegs(<<NameP, NameD, NameN, NameF>>) }

RequestPaths ==
    { (IF abs THEN <<Sep>> ELSE <<>>) \o JoinSegs(segs) :
        abs \in BOOLEAN, segs \in SegSeqs(MaxSegs) } \cup DeepPaths

\* Where a path leads once every symbolic link on it is followed, also through
\* components that do not exist yet (they are taken as they are named).
RECURSIVE LocationWalk(_, _, _, _)
LocationWalk(f, cur, rest, depth) ==
    IF Len(rest) = 0 THEN FromSegs(cur)
    ELSE LET seg == Head(rest)
             more == Tail(rest)
         IN IF seg = <<>> \/ seg = Dot THEN LocationWalk(f, cur, more, depth)
            ELSE IF seg = DotDot
              THEN LocationWalk(f, IF Len(cur) = 0 THEN cur ELSE ButLast(cur), more, depth)
            ELSE LET node == FromSegs(Append(cur, seg))
                 IN IF Kind(f, node) = "link" /\ depth > 0
                      THEN LocationWalk(f, <<>>, AbsSegs(f[node].target) \o more, depth - 1)
                    ELSE LocationWalk(f, Append(cur, seg), more, depth)

ResolvedLocation(f, cwd, p) ==
    LocationWalk(f, IF IsAbsolute(p) THEN <<>> ELSE AbsSegs(cwd), Split(p), MaxLinkDepth)

\* the location is the root itself or lies below it
WithinRoot(location, root) ==
    location = root \/ StartsWith(location, root \o <<Sep>>)

(***************************************************************************)
(* Tool calls, the registry and the built-in tools.                        *)
(***************************************************************************)
StringField(v) == [t |-> "string", s |-> v, b |-> FALSE]
BooleanField(v) == [t |-> "boolean", s |-> <<>>, b |-> v]
UndefinedField == [t |-> "undefined", s |-> <<>>, b |-> FALSE]

RegisteredTools == {"read_file", "write_file", "list_directory"}

NewContent == <<"n">>

WriteParams(path, createDirs) ==
    [path |-> StringField(path), content |-> StringField(NewContent),
     create_dirs |-> createDirs]

\* the paths tool calls ask for: an existing file, a new file, the existing
\* file named through a directory that does not exist, a file outside the
\* root, one in the sibling directory, one behind the link, one in a missing
\* directory
CallPaths ==
    { NameF, NameN, JoinSegs(<<NameN, DotDot, NameF>>), Child(OutsideDir, NameF),
      Child(SiblingDir, NameF), JoinSegs(<<NameL, NameF>>), JoinSegs(<<NameN, NameF>>) }

ToolCalls ==
    { [name |-> "write_file", parameters |-> WriteParams(path, UndefinedField)] :
        path \in CallPaths }
    \cup { [name |-> "write_file",
            parameters |-> WriteParams(JoinSegs(<<NameN, NameF>>), BooleanField(TRUE))],
           [name |-> "write_file",
            parameters |-> [path |-> StringField(NameF), content |-> UndefinedField,
                            create_dirs |-> UndefinedField]],
           [name |-> "read_file",
            parameters |-> [path |-> StringField(NameF), content |-> UndefinedField,
                            create_dirs |-> UndefinedField]],
           [name |-> "read_file",
            parameters |-> [path |-> StringField(Child(OutsideDir, NameF)),
                            content |-> UndefinedField, create_dirs |-> UndefinedField]],
           [name |-> "list_directory",
            parameters |-> [path |-> StringField(Dot), content |-> UndefinedField,
                            create_dirs |-> UndefinedField]],
           [name |-> "delete_file",
            parameters |-> [path |-> StringField(NameF), content |-> UndefinedField,
                            create_dirs |-> UndefinedField]] }

\* parameterSchema.parse: WriteFileParams, ReadFileParams, ListDirectoryParams
\* A parse that only looks at the path parameter.
ParamsValidPathOnly(name, params) == params.path.t = "string"

ParamsValid(name, params) ==
    /\ params.path.t = "string"
    /\ name = "write_file" =>
          /\ params.content.t = "string"
          /\ params.create_dirs.t \in {"boolean", "undefined"}

\* WriteFileInvocation.shouldConfirmExecute (BaseToolInvocation's for the others)
ShouldConfirm(f, cwd, call) ==
    call.name = "write_file" /\ FsAccess(f, cwd, call.parameters.path.s)

\* fs.promises.mkdir(dir, {recursive: true}): the missing directories of dir
\* are created; a symbolic link to a directory is followed.  dir is absolute
\* and normalized.  When a component is in the way nothing is created: a
\* dangling link is ENOENT as the last component and ENOTDIR (reported for the
\* link) before it, a file is EEXIST as the last component and ENOTDIR before it.
RECURSIVE MkdirWalk(_, _, _, _, _)
MkdirWalk(f, dir, cur, seen, rest) ==
    IF Len(rest) = 0 THEN [ok |-> TRUE, fs |-> f, code |-> "", path |-> <<>>]
    ELSE LET name == Head(rest)
             more == Tail(rest)
             node == FromSegs(Append(cur, name))
             kind == Kind(f, node)
             target == OsResolve(f, <<Sep>>, node, FALSE)
             Fail(code, path) == [ok |-> FALSE, fs |-> f, code |-> code, path |-> path]
         IN IF kind = "none"
              THEN MkdirWalk(node :> DirNode @@ f, dir, Append(cur, name),
                             Append(seen, name), more)
            ELSE IF target.ok /\ f[target.path].kind = "dir"
              THEN MkdirWalk(f, dir, AbsSegs(target.path), Append(seen, name), more)
            ELSE IF Len(more) = 0
              THEN Fail(IF target.ok THEN "EEXIST" ELSE target.code, dir)
            ELSE IF ~target.ok THEN Fail("ENOTDIR", FromSegs(Append(seen, name)))
            ELSE Fail("ENOTDIR", dir)

MkdirRecursive(f, dir) ==
    IF HasNullByte(dir)
      THEN [ok |-> FALSE, fs |-> f, code |-> "ERR_INVALID_ARG_VALUE", path |-> dir]
    ELSE MkdirWalk(f, dir, <<>>, <<>>, AbsSegs(dir))

\* fs.promises.writeFile(safePath, content): the node written, whether it
\* existed, and the filesystem afterwards
WriteFile(f, cwd, safePath, content) ==
    LET target == OsResolve(f, cwd, safePath, TRUE)
    IN IF ~target.ok THEN [ok |-> FALSE, code |-> target.code, overwrote |-> FALSE, fs |-> f]
       ELSE IF target.exists /\ f[target.path].kind = "dir"
         THEN [ok |-> FALSE, code |-> "EISDIR", overwrote |-> FALSE, fs |-> f]
       ELSE [ok |-> TRUE, code |-> "", overwrote |-> target.exists,
             fs |-> [n \in DOMAIN f \cup {target.path} |->
                        IF n = target.path THEN FileNode(content) ELSE f[n]]]

\* a 'tool' message; its content is the text prefix + msg + reason + arg
ReasonedMessage(id, prefix, msg, reason, arg) ==
    [role |-> "tool", toolCallId |-> id,
     content |-> [prefix |-> prefix, msg |-> msg, reason |-> reason, arg |-> arg]]

ToolMessage(id, prefix, msg, arg) == ReasonedMessage(id, prefix, msg, "", arg)

\* a failure message that does not name its call
FailedMessageUnattributed(id, msg, arg) ==
    ToolMessage(0, "Tool execution failed: ", msg, arg)

FailedMessage(id, msg, arg) == ToolMessage(id, "Tool execution failed: ", msg, arg)

\* The results of the calls a handler makes one after the other are bound by
\* a quantifier over a one-element set: each is computed once, like the awaited
\* value the code holds in a const.

\* the locals an invocation's execute holds across its awaits
NoLocals == [safePath |-> <<>>, items |-> <<>>, entries |-> <<>>]

\* What execute has done when it next awaits a system call (pc names the call),
\* when it has returned its result, and when it has thrown: the steps taken, the
\* filesystem, and the text of the result or of the error (msg + reason + arg).
Awaiting(next, f, loc, steps) ==
    [pc |-> next, locals |-> loc, steps |-> steps, fs |-> f, ok |-> TRUE,
     msg |-> "", reason |-> "", arg |-> <<>>]

Returned(f, steps, msg, arg) ==
    [pc |-> "done", locals |-> NoLocals, steps |-> steps, fs |-> f, ok |-> TRUE,
     msg |-> msg, reason |-> "", arg |-> arg]

Thrown(f, steps, msg, reason, arg) ==
    [pc |-> "done", locals |-> NoLocals, steps |-> steps, fs |-> f, ok |-> FALSE,
     msg |-> msg, reason |-> reason, arg |-> arg]

\* the catch of WriteFileInvocation.execute
WriteFileCatch(f, params, code, syscall, path) ==
    IF code = "ENOENT"
      THEN Thrown(f, <<>>, "Directory does not exist: ", "", PathDirname(params.path.s))
    ELSE Thrown(f, <<>>, "Failed to write file: ", SystemError(code, syscall), path)

\* WriteFileInvocation.execute up to its first system call: validateFile, which
\* makes none for a write
WriteFileExecute(config, f, cwd, params) ==
    CHOOSE result \in
      { IF ~validation.valid
          THEN Thrown(f, <<"security_denied">>, "File access denied: ",
                      validation.reason.msg, validation.reason.arg)
        ELSE Awaiting(IF params.create_dirs.t = "boolean" /\ params.create_dirs.b
                        THEN "mkdir" ELSE "write_file",
                      f, [NoLocals EXCEPT !.safePath = validation.safePath],
                      <<"security_allowed">>)
        : validation \in {SMValidateFile(config, f, cwd, params.path.s, "write")} } : TRUE

\* WriteFileInvocation.execute: fs.promises.mkdir of the parent directory
WriteFileMkdir(f, params, loc) ==
    CHOOSE result \in
      { IF made.ok THEN Awaiting("write_file", made.fs, loc, <<>>)
        ELSE WriteFileCatch(f, params, made.code, "mkdir", made.path)
        : made \in {MkdirRecursive(f, PathDirname(loc.safePath))} } : TRUE

\* WriteFileInvocation.execute: fs.promises.writeFile and the result
WriteFileWrite(f, cwd, params, loc) ==
    CHOOSE result \in
      { IF ~written.ok THEN WriteFileCatch(f, params, written.code, "open", loc.safePath)
        ELSE Returned(written.fs, <<IF written.overwrote THEN "overwrite" ELSE "create">>,
                      "Successfully wrote to ", params.path.s)
        : written \in {WriteFile(f, cwd, loc.safePath, params.content.s)} } : TRUE

\* the catch of ReadFileInvocation.execute
ReadFileCatch(f, params, code, syscall, path) ==
    IF code = "ENOENT" THEN Thrown(f, <<>>, "File not found: ", "", params.path.s)
    ELSE Thrown(f, <<>>, "Failed to read file: ", SystemError(code, syscall), path)

\* ReadFileInvocation.execute up to its first system call: the path and
\* extension checks of validateFile; without a maxFileSize validateFileSize
\* returns before its stat and the first call is the access
ReadFileExecute(config, f, cwd, params) ==
    CHOOSE result \in
      { IF ~validation.valid
          THEN Thrown(f, <<"security_denied">>, "File access denied: ",
                      validation.reason.msg, validation.reason.arg)
        ELSE IF config.maxFileSize = 0
          THEN Awaiting("access", f, [NoLocals EXCEPT !.safePath = validation.safePath],
                        <<"security_allowed">>)
        ELSE Awaiting("stat", f, [NoLocals EXCEPT !.safePath = validation.safePath], <<>>)
        : validation \in {SMValidateFileStart(config, cwd, params.path.s)} } : TRUE

\* ReadFileInvocation.execute: the fs.stat of validateFileSize, and validateFile's return
ReadFileSize(config, f, cwd, loc) ==
    CHOOSE result \in
      { IF ~sizeResult.valid
          THEN Thrown(f, <<"security_denied">>, "File access denied: ",
                      sizeResult.reason.msg, sizeResult.reason.arg)
        ELSE Awaiting("access", f, loc, <<"security_allowed">>)
        : sizeResult \in {SMValidateFileSize(config, f, cwd, loc.safePath)} } : TRUE

\* ReadFileInvocation.execute: fs.promises.access
ReadFileAccess(f, cwd, params, loc) ==
    CHOOSE result \in
      { IF ~target.ok THEN ReadFileCatch(f, params, target.code, "access", loc.safePath)
        ELSE Awaiting("read_file", f, loc, <<>>)
        : target \in {OsResolve(f, cwd, loc.safePath, FALSE)} } : TRUE

\* ReadFileInvocation.execute: fs.promises.readFile and the result
ReadFileRead(f, cwd, params, loc) ==
    CHOOSE result \in
      { IF ~target.ok THEN ReadFileCatch(f, params, target.code, "open", loc.safePath)
        ELSE IF f[target.path].kind = "dir"
          THEN Thrown(f, <<>>, "Failed to read file: ", SystemError("EISDIR", "read"), <<>>)
        ELSE Returned(f, <<"read">>, "", f[target.path].content)
        : target \in {OsResolve(f, cwd, loc.safePath, FALSE)} } : TRUE

\* String.prototype.localeCompare on the names of the model: punctuation
\* before letters, letters in alphabetical order, a prefix before its extensions
CollationOrder ==
    <<".", "a", "b", "c", "d", "e", "f", "g", "h", "i", "j", "k", "l", "m", "n", "o",
      "p", "q", "r", "s", "t", "u", "v", "w", "x", "y", "z">>

CharRank(c) == CHOOSE k \in 1..Len(CollationOrder) : CollationOrder[k] = c

RECURSIVE LocaleCompare(_, _)
LocaleCompare(a, b) ==
    IF Len(a) = 0 THEN (IF Len(b) = 0 THEN 0 ELSE -1)
    ELSE IF Len(b) = 0 THEN 1
    ELSE IF CharRank(Head(a)) < CharRank(Head(b)) THEN -1
    ELSE IF CharRank(Head(a)) > CharRank(Head(b)) THEN 1
    ELSE LocaleCompare(Tail(a), Tail(b))

\* the sequence of the elements of a set of names, each before the ones it
\* compares lower than
RECURSIVE NamesInOrder(_)
NamesInOrder(names) ==
    IF names = {} THEN <<>>
    ELSE LET first == CHOOSE n \in names : \A m \in names : LocaleCompare(n, m) <= 0
         IN <<first>> \o NamesInOrder(names \ {first})

\* fs.promises.readdir(dirPath): the names in the directory.  The order in
\* which the system hands them out is taken to be that of the names; the
\* listing is sorted afterwards, so the order only decides which failing entry
\* is met first.
Readdir(f, cwd, dirPath) ==
    LET target == OsResolve(f, cwd, dirPath, FALSE)
    IN IF ~target.ok THEN [ok |-> FALSE, code |-> target.code, items |-> <<>>]
       ELSE IF f[target.path].kind # "dir"
         THEN [ok |-> FALSE, code |-> "ENOTDIR", items |-> <<>>]
       ELSE [ok |-> TRUE, code |-> "",
             items |-> NamesInOrder({ PathBasename(n) :
                          n \in { m \in DOMAIN f : m # target.path
                                                   /\ PathDirname(m) = target.path } })]

\* the comparison of the sort in ListDirectoryInvocation.execute: directories
\* first, then by name
EntryBefore(a, b) ==
    IF a.isDirectory /\ ~b.isDirectory THEN TRUE
    ELSE IF ~a.isDirectory /\ b.isDirectory THEN FALSE
    ELSE LocaleCompare(a.name, b.name) < 0

RECURSIVE SortEntries(_)
SortEntries(listed) ==
    IF Len(listed) = 0 THEN <<>>
    ELSE LET i == CHOOSE k \in 1..Len(listed) :
                      \A j \in 1..Len(listed) : j # k => EntryBefore(listed[k], listed[j])
         IN <<listed[i]>>
            \o SortEntries(SubSeq(listed, 1, i - 1) \o SubSeq(listed, i + 1, Len(listed)))

DirPrefix == <<"[", "D", "I", "R", "]", " ">>

\* the two characters the template strings of formatForLLM end their lines with
LineEnd == <<"\\", "n">>

\* ListDirectoryInvocation.formatForLLM, after "Directory listing for "
RECURSIVE FormatEntries(_)
FormatEntries(listed) ==
    IF Len(listed) = 0 THEN <<>>
    ELSE (IF Head(listed).isDirectory THEN DirPrefix ELSE <<>>)
         \o Head(listed).name \o LineEnd \o FormatEntries(Tail(listed))

FormatForLLM(dirPath, listed) == dirPath \o <<":">> \o LineEnd \o FormatEntries(listed)

IsVisible(entry) == ~StartsWith(entry.name, Dot)

\* the catch of ListDirectoryInvocation.execute
ListDirectoryCatch(f, params, code, syscall, path) ==
    IF code = "ENOENT" THEN Thrown(f, <<>>, "Directory not found: ", "", params.path.s)
    ELSE Thrown(f, <<>>, "Failed to list directory: ", SystemError(code, syscall), path)

\* ListDirectoryInvocation.execute once listDirectory has returned: the filter
\* of hidden names (show_hidden is not given), the sort and the listing
ListDirectoryReturn(f, loc) ==
    Returned(f, <<"list">>, "Directory listing for ",
             FormatForLLM(loc.safePath, SortEntries(SelectSeq(loc.entries, IsVisible))))

\* ListDirectoryInvocation.execute up to its first system call: validateFilePath
ListDirectoryExecute(config, f, cwd, params) ==
    CHOOSE result \in
      { IF ~validation.valid
          THEN Thrown(f, <<"security_denied">>, "Directory access denied: ",
                      validation.reason.msg, validation.reason.arg)
        ELSE Awaiting("stat_dir", f, [NoLocals EXCEPT !.safePath = validation.safePath],
                      <<"security_allowed">>)
        : validation \in {SMValidateFilePath(config, cwd, params.path.s)} } : TRUE

\* ListDirectoryInvocation.execute: fs.promises.stat of the directory
ListDirectoryStat(f, cwd, params, loc) ==
    CHOOSE result \in
      { IF ~target.ok
          THEN ListDirectoryCatch(f, params, target.code, "stat", loc.safePath)
        ELSE IF f[target.path].kind # "dir"
          THEN Thrown(f, <<>>, "Failed to list directory: Path is not a directory: ", "",
                      params.path.s)
        ELSE Awaiting("readdir", f, loc, <<>>)
        : target \in {OsResolve(f, cwd, loc.safePath, FALSE)} } : TRUE

\* ListDirectoryInvocation.listDirectory: fs.promises.readdir
ListDirectoryList(f, cwd, params, loc) ==
    CHOOSE result \in
      { IF ~read.ok
          THEN ListDirectoryCatch(f, params, read.code, "scandir", loc.safePath)
        ELSE IF Len(read.items) = 0 THEN ListDirectoryReturn(f, loc)
        ELSE Awaiting("stat_item", f, [loc EXCEPT !.items = read.items], <<>>)
        : read \in {Readdir(f, cwd, loc.safePath)} } : TRUE

\* ListDirectoryInvocation.listDirectory: fs.promises.stat of the next item,
\* and, after the last one, the rest of execute
ListDirectoryItem(f, cwd, params, loc) ==
    CHOOSE result \in
      { IF ~target.ok
          THEN ListDirectoryCatch(f, params, target.code, "stat",
                                  PathJoin(loc.safePath, Head(loc.items)))
        ELSE CHOOSE r \in
               { IF Len(after.items) = 0 THEN ListDirectoryReturn(f, after)
                 ELSE Awaiting("stat_item", f, after, <<>>)
                 : after \in { [loc EXCEPT
                                  !.items = Tail(loc.items),
                                  !.entries = Append(loc.entries,
                                      [name |-> Head(loc.items),
                                       isDirectory |-> f[target.path].kind = "dir"])] } }
               : TRUE
        : target \in {OsResolve(f, cwd, PathJoin(loc.safePath, Head(loc.items)), FALSE)} }
      : TRUE

\* invocation.execute up to its first system call
InvocationExecute(config, f, cwd, call) ==
    IF call.name = "write_file" THEN WriteFileExecute(config, f, cwd, call.parameters)
    ELSE IF call.name = "read_file" THEN ReadFileExecute(config, f, cwd, call.parameters)
    ELSE ListDirectoryExecute(config, f, cwd, call.parameters)

(***************************************************************************)
(* Confirmation.                                                           *)
(***************************************************************************)
ConfirmationOutcomes == {"approved", "denied", "cancelled"}

UserReason == <<"r">>

\* the responses a ConfirmationHandler can give; message is optional
ConfirmationResponses ==
    [outcome : ConfirmationOutcomes, hasMessage : BOOLEAN, message : {<<>>, UserReason}]

NoConfirmation == [outcome |-> "none", hasMessage |-> FALSE, message |-> <<>>]

\* DefaultConfirmationHandler.requestConfirmation: approves on both branches
DefaultHandlerResponse(request) ==
    [outcome |-> "approved", hasMessage |-> FALSE, message |-> <<>>]

\* whether the handler puts the request before a user:
\* DefaultConfirmationHandler answers by itself on both of its branches
PromptsUser(h) == h # "default"

\* the responses of the handler in place to a request
HandlerResponses(h, request) ==
    IF h = "default" THEN {DefaultHandlerResponse(request)}
    ELSE { r \in ConfirmationResponses : r.hasMessage \/ r.message = <<>> }

\* a branch that short-circuits on 'denied' only
NotApprovedDeniedOnly(response) == response.outcome = "denied"

\* response.outcome !== 'approved'
NotApproved(response) == response.outcome # "approved"

NoReasonProvided == <<"-">>

\* response.message || 'No reason provided'
CancelReason(response) ==
    IF response.hasMessage /\ response.message # <<>> THEN response.message
    ELSE NoReasonProvided

CancelledMessage(id, response) ==
    ToolMessage(id, "Tool execution cancelled by user: ", "", CancelReason(response))

(***************************************************************************)
(* RateLimiter.                                                            *)
(***************************************************************************)
Keys == {"a", "b"}

Algorithms == {"token_bucket", "sliding_window", "fixed_window"}

\* RateLimitConfigSchema: three positive integers and the enabled flag; of each
\* integer the smallest value and the largest one
RateLimitConfigs ==
    [enabled : BOOLEAN, requestsPerMinute : {1, MaxRate}, burstLimit : {1, MaxRate},
     windowSizeMs : {2, MaxWindow}]

\* burstLimit is read by checkTokenBucket only: under the two window algorithms
\* the configurations with burstLimit = requestsPerMinute stand for all
WindowConfigs ==
    { config \in RateLimitConfigs : config.burstLimit = config.requestsPerMinute }

\* a configuration whose refill after one millisecond is a whole token in exact
\* arithmetic: 1 / 49 is not a double, and (1 / 49) * 49 falls below 1
InexactRefillConfigs ==
    { [enabled |-> TRUE, requestsPerMinute |-> 49, burstLimit |-> 1, windowSizeMs |-> 49] }

MsPerSecond == 1000

DefaultRetryAfter == 60

Min(a, b) == IF a < b THEN a ELSE b

Max(a, b) == IF a > b THEN a ELSE b

\* Math.ceil(x / d) for an integer x and a positive integer d
CeilDiv(x, d) == -((-x) \div d)

\* a refill that adds a token at every call
TokensToAddOne(config, timePassed) == 1

\* a refill that never adds a token
TokensToAddNone(config, timePassed) == 0

RECURSIVE Pow(_, _)
Pow(b, e) == IF e = 0 THEN 1 ELSE b * Pow(b, e - 1)

\* the bits of the significand of a Number (an IEEE 754 double)
DoubleMantissaBits == 53

\* 2^e mod m
RECURSIVE PowerOfTwoMod(_, _)
PowerOfTwoMod(e, m) == IF e = 0 THEN 1 % m ELSE (2 * PowerOfTwoMod(e - 1, m)) % m

\* the binary exponent of a / b: the j with 2^j <= a / b < 2^(j + 1)
RECURSIVE Exponent(_, _)
Exponent(a, b) ==
    IF 2 * b <= a THEN Exponent(a, 2 * b) + 1
    ELSE IF a < b THEN Exponent(2 * a, b) - 1
    ELSE 0

\* Math.floor((a / b) * c) for integers a >= 0, b > 0, c > 0 (each below 2^15),
\* as the arithmetic of doubles gives it.  The quotient is rounded to the nearest
\* double (ties to even) and so is the product.  Where a * c / b is no integer,
\* the roundings are too small to move the floor.  Where it is an integer and
\* a / b is not exact, a quotient rounded down gives a product below that
\* integer, and the rounding of the product brings it back only when it lies no
\* further from the integer than half the step of the doubles below it: if
\* not, the floor is one less than the exact quotient.
\*   error: rounded minus exact quotient, in units of 1 / (b * 2^k), 2^k the
\*          scale that gives the quotient DoubleMantissaBits bits
\*   step:  the doubles below `exact` are 2^-step apart, in units of 2^-k
FloorOfScaled(a, b, c) ==
    LET exact == (a * c) \div b
        k == DoubleMantissaBits - 1 - Exponent(a, b)
        rem == ((a % b) * PowerOfTwoMod(k, b)) % b
        odd == ((a % (2 * b)) * PowerOfTwoMod(k, 2 * b)) % (2 * b) >= b
        error == IF 2 * rem < b \/ (2 * rem = b /\ ~odd) THEN -rem ELSE b - rem
        top == Exponent(exact, 1)
        step == Exponent(a, b) + 1 - top + (IF exact = Pow(2, top) THEN 1 ELSE 0)
        below == IF step >= 0 THEN c * (-error) * Pow(2, step) > b
                 ELSE c * (-error) > b * Pow(2, -step)
    IN IF a = 0 \/ (a * c) % b # 0 \/ a % b = 0 THEN exact
       ELSE IF error < 0 /\ below THEN exact - 1
       ELSE exact

\* Math.floor((timePassed / windowSizeMs) * requestsPerMinute)
TokensToAdd(config, timePassed) ==
    FloorOfScaled(timePassed, config.windowSizeMs, config.requestsPerMinute)

\* a refill without the cap of the burst limit
RefillUncapped(config, count, tokensToAdd) == count + tokensToAdd

\* Math.min(this.config.burstLimit, entry.count + tokensToAdd)
Refill(config, count, tokensToAdd) == Min(config.burstLimit, count + tokensToAdd)

\* a result of checkLimit; retryAfter is present on denials only
Allowed(remaining, resetTime) ==
    [allowed |-> TRUE, remaining |-> remaining, resetTime |-> resetTime,
     hasRetryAfter |-> FALSE, retryAfter |-> 0]

Denied(resetTime, retryAfter) ==
    [allowed |-> FALSE, remaining |-> 0, resetTime |-> resetTime,
     hasRetryAfter |-> TRUE, retryAfter |-> retryAfter]

\* this.entries.get(key) || fresh: an entry of the map is changed in place,
\* a fresh one reaches the map only through this.entries.set
Stored(es, key, entry) == IF key \in DOMAIN es THEN (key :> entry) @@ es ELSE es

\* RateLimiter.checkTokenBucket: [entries, result]
CheckTokenBucket(config, es, key, t) ==
    LET entry == IF key \in DOMAIN es THEN es[key]
                 ELSE [count |-> config.burstLimit, windowStart |-> t, lastRequest |-> t]
        timePassed == t - entry.lastRequest
        refilled == [entry EXCEPT
                        !.count = Refill(config, entry.count, TokensToAdd(config, timePassed)),
                        !.lastRequest = t]
        taken == [refilled EXCEPT !.count = @ - 1]
    IN IF refilled.count > 0
         THEN [entries |-> (key :> taken) @@ es,
               result |-> Allowed(taken.count,
                    t + ((config.burstLimit - taken.count) * config.windowSizeMs)
                          \div config.requestsPerMinute)]
       ELSE LET retryAfter == CeilDiv(config.windowSizeMs,
                                      config.requestsPerMinute * MsPerSecond)
            IN [entries |-> Stored(es, key, refilled),
                result |-> Denied(t + retryAfter * MsPerSecond, retryAfter)]

\* a window check that admits one call more than requestsPerMinute
CheckWindowLax(config, es, key, t, reset) ==
    LET counted == [reset EXCEPT !.count = Min(@ + 1, config.requestsPerMinute),
                                 !.lastRequest = t]
    IN [entries |-> (key :> counted) @@ es,
        result |-> Allowed(config.requestsPerMinute - counted.count,
                           reset.windowStart + config.windowSizeMs)]

\* the two window algorithms after the window start has been set
CheckWindow(config, es, key, t, reset) ==
    IF reset.count < config.requestsPerMinute
      THEN LET counted == [reset EXCEPT !.count = @ + 1, !.lastRequest = t]
           IN [entries |-> (key :> counted) @@ es,
               result |-> Allowed(config.requestsPerMinute - counted.count,
                                  reset.windowStart + config.windowSizeMs)]
    ELSE LET resetTime == reset.windowStart + config.windowSizeMs
         IN [entries |-> Stored(es, key, reset),
             result |-> Denied(resetTime, CeilDiv(resetTime - t, MsPerSecond))]

\* RateLimiter.checkSlidingWindow: [entries, result]
CheckSlidingWindow(config, es, key, t) ==
    LET windowStart == t - config.windowSizeMs
        entry == IF key \in DOMAIN es THEN es[key]
                 ELSE [count |-> 0, windowStart |-> t, lastRequest |-> 0]
        reset == IF entry.windowStart < windowStart
                   THEN [entry EXCEPT !.count = 0, !.windowStart = windowStart]
                 ELSE entry
    IN CheckWindow(config, es, key, t, reset)

\* RateLimiter.checkFixedWindow: [entries, result]
CheckFixedWindow(config, es, key, t) ==
    LET windowStart == (t \div config.windowSizeMs) * config.windowSizeMs
        entry == IF key \in DOMAIN es THEN es[key]
                 ELSE [count |-> 0, windowStart |-> windowStart, lastRequest |-> 0]
        reset == IF entry.windowStart # windowStart
                   THEN [entry EXCEPT !.count = 0, !.windowStart = windowStart]
                 ELSE entry
    IN CheckWindow(config, es, key, t, reset)

\* RateLimiter.checkLimit: [entries, result, counted]
\* A limiter that keeps one entry for all keys: the entry a call leaves is stored
\* under every key that has one.
CheckLimitShared(config, alg, es, key, t) ==
    IF ~config.enabled
      THEN [entries |-> es,
            result |-> Allowed(config.requestsPerMinute, t + config.windowSizeMs),
            counted |-> 0]
    ELSE LET checked == IF alg = "token_bucket" THEN CheckTokenBucket(config, es, key, t)
                        ELSE IF alg = "sliding_window"
                          THEN CheckSlidingWindow(config, es, key, t)
                        ELSE CheckFixedWindow(config, es, key, t)
         IN [entries |-> IF key \in DOMAIN checked.entries
                           THEN [k \in DOMAIN checked.entries |-> checked.entries[key]]
                         ELSE checked.entries,
             result |-> checked.result, counted |-> 1]

CheckLimit(config, alg, es, key, t) ==
    IF ~config.enabled
      THEN [entries |-> es,
            result |-> Allowed(config.requestsPerMinute, t + config.windowSizeMs),
            counted |-> 0]
    ELSE LET checked == IF alg = "token_bucket" THEN CheckTokenBucket(config, es, key, t)
                        ELSE IF alg = "sliding_window"
                          THEN CheckSlidingWindow(config, es, key, t)
                        ELSE CheckFixedWindow(config, es, key, t)
         IN [entries |-> checked.entries, result |-> checked.result, counted |-> 1]

\* result.retryAfter || 60
RaisedRetryAfter(result) ==
    IF result.hasRetryAfter /\ result.retryAfter # 0 THEN result.retryAfter
    ELSE DefaultRetryAfter

\* a sweep that removes every entry
CleanupAll(config, es, t) == [key \in {} |-> key]

\* RateLimiter.cleanup: the entries that stay
Cleanup(config, es, t) ==
    [key \in {k \in DOMAIN es : ~(t - es[k].lastRequest > config.windowSizeMs)} |-> es[key]]

\* new Map()
NoEntries == [key \in {} |-> key]

NoCall ==
    [op |-> "none", key |-> "", result |-> Allowed(0, 0), raised |-> FALSE,
     raisedRetryAfter |-> 0]

NoExpectation == [allowed |-> TRUE, afterDenial |-> FALSE]

RateIdle ==
    /\ rlConfig = [enabled |-> TRUE, requestsPerMinute |-> 1, burstLimit |-> 1,
                   windowSizeMs |-> 2]
    /\ algorithm = "sliding_window"
    /\ entries = NoEntries
    /\ now = 0
    /\ totalRequests = 0
    /\ blockedRequests = 0
    /\ rlLast = NoCall
    /\ windows = NoEntries
    /\ buckets = NoEntries
    /\ expectation = NoExpectation
    /\ unswept = NoEntries
    /\ cleanupInterval = TRUE

(***************************************************************************)
(* ErrorUtils.retry and the retryability of the error classes.             *)
(***************************************************************************)
BaseErrorClasses ==
    {"ValidationError", "ApiError", "FileSystemError", "SecurityError",
     "ConfigurationError", "ToolExecutionError", "RateLimitError", "NetworkError"}

\* errors that are not instances of BaseError: a plain Error, and the
\* DOMException named AbortError that an aborted signal raises
PlainErrorClasses == {"Error", "AbortError"}

\* the constructors an error of the class is an instance of
Superclasses(class) ==
    IF class \in BaseErrorClasses THEN {class, "BaseError", "Error"}
    ELSE IF class = "AbortError" THEN {"DOMException", "Error"}
    ELSE {class}

\* error instanceof ErrorClass
InstanceOf(error, ErrorClass) == ErrorClass \in Superclasses(error.class)

\* the ErrorCategory each class passes to the BaseError constructor
Category(error) ==
    CASE error.class = "ValidationError" -> "validation"
      [] error.class = "ApiError" ->
            IF error.statusCode >= 500 THEN "external_service" ELSE "validation"
      [] error.class = "FileSystemError" -> "file_system"
      [] error.class = "SecurityError" -> "authorization"
      [] error.class = "ConfigurationError" -> "configuration"
      [] error.class = "ToolExecutionError" -> "internal"
      [] error.class = "RateLimitError" -> "rate_limit"
      [] error.class = "NetworkError" -> "network"
      [] OTHER -> "none"

\* BaseError.isRetryable
BaseIsRetryable(error) == Category(error) \in {"network", "external_service", "rate_limit"}

\* ApiError.isRetryable
ApiIsRetryable(error) == error.statusCode >= 500 \/ error.statusCode = 429

\* RateLimitError.isRetryable
RateLimitIsRetryable(error) == TRUE

\* an isRetryable that answers no
NeverRetryable(error) == FALSE

\* NetworkError.isRetryable
NetworkIsRetryable(error) == TRUE

\* error.isRetryable() with the overrides of the subclasses
IsRetryable(error) ==
    CASE error.class = "ApiError" -> ApiIsRetryable(error)
      [] error.class = "RateLimitError" -> RateLimitIsRetryable(error)
      [] error.class = "NetworkError" -> NetworkIsRetryable(error)
      [] OTHER -> BaseIsRetryable(error)

\* retryableErrors?: an array of constructors, or undefined
ErrorClassList(classes) == [defined |-> TRUE, classes |-> classes]

UndefinedList == [defined |-> FALSE, classes |-> <<>>]

\* DEFAULT_RETRY_CONFIG.retryableErrors
RetryableErrors == ErrorClassList(<<"NetworkError", "ApiError", "RateLimitError">>)

\* the lists a caller passes: none (the default stays), every Error, and an
\* explicit undefined, which replaces the default in the spread
RetryableErrorLists == {RetryableErrors, ErrorClassList(<<"Error">>), UndefinedList}

\* a check that finds every error retryable
AlwaysRetryable(error, retryableErrors) == TRUE

\* ErrorUtils.isRetryableError
IsRetryableError(error, retryableErrors) ==
    IF InstanceOf(error, "BaseError") THEN IsRetryable(error)
    ELSE IF retryableErrors.defined
      THEN \E i \in DOMAIN retryableErrors.classes :
              InstanceOf(error, retryableErrors.classes[i])
    ELSE FALSE

ApiStatusCodes == {400, 429, 500}

RetryAfterSeconds == {0, 2}

\* the errors the operation can raise at its id-th invocation
Errors(id) ==
    { [class |-> c, statusCode |-> 0, retryAfter |-> 0, id |-> id] :
          c \in (BaseErrorClasses \cup PlainErrorClasses) \ {"ApiError", "RateLimitError"} }
    \cup { [class |-> "ApiError", statusCode |-> st, retryAfter |-> 0, id |-> id] :
              st \in ApiStatusCodes }
    \cup { [class |-> "RateLimitError", statusCode |-> 0, retryAfter |-> r, id |-> id] :
              r \in RetryAfterSeconds }

\* let lastError: Error, not assigned yet
Undefined == [class |-> "undefined", statusCode |-> 0, retryAfter |-> 0, id |-> 0]

Success == [class |-> "success", statusCode |-> 0, retryAfter |-> 0, id |-> 0]

\* a Number that is not an integer, as the fraction num / den
Fraction(num, den) == [num |-> num, den |-> den]

\* x * Math.pow(m, e) for a fraction m; the products of the model are integers
TimesPow(x, m, e) == (x * Pow(m.num, e)) \div Pow(m.den, e)

\* a delay without the cap of maxDelayMs
DelayMsUncapped(config, n, error) ==
    LET delayMs == TimesPow(config.baseDelayMs, config.backoffMultiplier, n - 1)
    IN IF error.class = "RateLimitError"
         THEN Max(delayMs, error.retryAfter * MsPerSecond)
       ELSE delayMs

\* the delay before the next attempt
DelayMs(config, n, error) ==
    LET delayMs == Min(TimesPow(config.baseDelayMs, config.backoffMultiplier, n - 1),
                       config.maxDelayMs)
    IN IF error.class = "RateLimitError"
         THEN Max(delayMs, error.retryAfter * MsPerSecond)
       ELSE delayMs

\* the multipliers of the model: 0, 1/2, 1 and the default 2
BackoffMultipliers == {Fraction(0, 1), Fraction(1, 2), Fraction(1, 1), Fraction(2, 1)}

DefaultRetryConfig ==
    [maxAttempts |-> 3, baseDelayMs |-> 1000, maxDelayMs |-> 30000,
     backoffMultiplier |-> Fraction(2, 1), retryableErrors |-> RetryableErrors,
     onRetry |-> FALSE]

\* { ...DEFAULT_RETRY_CONFIG, ...config }: no field of config is validated.  The
\* configurations of the model change the delays under the default list of
\* retryable errors, or the list under the default delays.
RetryConfigs ==
    [maxAttempts : 0..MaxAttempts, baseDelayMs : {-1000, 1000}, maxDelayMs : {1500, 30000},
     backoffMultiplier : BackoffMultipliers, retryableErrors : {RetryableErrors},
     onRetry : BOOLEAN]
    \cup { [DefaultRetryConfig EXCEPT !.maxAttempts = n, !.retryableErrors = list,
                                      !.onRetry = called] :
              n \in 0..MaxAttempts, list \in RetryableErrorLists, called \in BOOLEAN }

RetryIdle ==
    /\ retryConfig = DefaultRetryConfig
    /\ attempt = 1
    /\ retryPc = "loop"
    /\ lastError = Undefined
    /\ thrown = Undefined
    /\ trace = <<>>

(***************************************************************************)
(* ToolRegistry.                                                           *)
(***************************************************************************)
\* the tool objects a caller can register: several may carry the same name
ToolObjects == [name : RegisteredTools, version : 1..MaxToolVersions]

\* this.tools.has(name)
HasTool(ts, name) == \E i \in 1..Len(ts) : ts[i].name = name

\* this.tools.get(name), for a name the map has
GetTool(ts, name) == ts[CHOOSE i \in 1..Len(ts) : ts[i].name = name]

\* a keys() that lists nothing
NoAvailableTools(ts) == <<>>

\* Array.from(this.tools.keys()): the names in insertion order
AvailableTools(ts) == [i \in 1..Len(ts) |-> ts[i].name]

\* this.tools.delete(name)
MapDelete(ts, name) ==
    LET Keep(tool) == tool.name # name
    IN SelectSeq(ts, Keep)

NoError == [class |-> "none", type |-> "none", availableTools |-> <<>>, issues |-> <<>>]

NoInvocation == [created |-> FALSE, tool |-> [name |-> "", version |-> 0]]

\* ToolRegistry.register: [tools, ok, error]
RegistryRegister(ts, tool) ==
    IF HasTool(ts, tool.name)
      THEN [tools |-> ts, ok |-> FALSE,
            error |-> [class |-> "Error", type |-> "none", availableTools |-> <<>>,
                       issues |-> <<>>]]
    ELSE [tools |-> Append(ts, tool), ok |-> TRUE, error |-> NoError]

\* ToolRegistry.createInvocation, with BaseTool.createInvocation behind it:
\* [ok, error, invocation]
\* The parameter schema of each built-in tool, in the order of its z.object keys.
ToolSchema(name) ==
    IF name = "write_file"
      THEN << [field |-> "path", expected |-> "string", optional |-> FALSE],
              [field |-> "content", expected |-> "string", optional |-> FALSE],
              [field |-> "create_dirs", expected |-> "boolean", optional |-> TRUE] >>
      ELSE << [field |-> "path", expected |-> "string", optional |-> FALSE] >>

\* The issues of the ZodError that parameterSchema.parse throws: one per offending
\* field, with the field's path and the violated type constraint.  createInvocation
\* embeds them in the ToolError's message and keeps them in details.originalError.
ZodIssues(name, params) ==
    LET Offends(entry) ==
            LET received == params[entry.field].t
            IN ~(received = entry.expected \/ (entry.optional /\ received = "undefined"))
        offending == SelectSeq(ToolSchema(name), Offends)
    IN [i \in 1..Len(offending) |->
          [path |-> offending[i].field, expected |-> offending[i].expected,
           received |-> params[offending[i].field].t]]

RegistryCreateInvocation(ts, call) ==
    IF ~HasTool(ts, call.name)
      THEN [ok |-> FALSE,
            error |-> [class |-> "ToolError", type |-> "not_found_error",
                       availableTools |-> AvailableTools(ts), issues |-> <<>>],
            invocation |-> NoInvocation]
    ELSE IF ~ParamsValid(call.name, call.parameters)
      THEN [ok |-> FALSE,
            error |-> [class |-> "ToolError", type |-> "validation_error",
                       availableTools |-> <<>>,
                       issues |-> ZodIssues(call.name, call.parameters)],
            invocation |-> NoInvocation]
    ELSE [ok |-> TRUE, error |-> NoError,
          invocation |-> [created |-> TRUE, tool |-> GetTool(ts, call.name)]]

NoRegistryCall ==
    [op |-> "none", name |-> "", tool |-> NoInvocation.tool, before |-> <<>>, ok |-> TRUE,
     error |-> NoError, invocation |-> NoInvocation]

RegistryIdle ==
    /\ tools = <<>>
    /\ regLast = NoRegistryCall

(***************************************************************************)
(* Specification SpecSafety: SafetyManager.validateFilePath called on      *)
(* arbitrary requested paths.                                              *)
(***************************************************************************)
\* OpenCLI before any key is pressed
NoEvent == [kind |-> "none", pressedAt |-> -1, previousPress |-> -1]

NoResponse == [id |-> 0, toolCalls |-> 0]

NoOutcome == [kind |-> "none", response |-> 0, message |-> ""]

NoMessages == [user |-> 0, assistant |-> 0, tool |-> 0]

SendIdle ==
    /\ modelFound = TRUE
    /\ attempts = 0
    /\ sendPc = "idle"
    /\ modelResponse = NoResponse
    /\ turn = NoMessages
    /\ modelCalls = 0
    /\ withTools = 0
    /\ sendOutcome = NoOutcome

CliIdle ==
    /\ ctrlCCount = 0
    /\ timers = <<>>
    /\ clock = 0
    /\ exited = FALSE
    /\ mainPc = "askQuestion"
    /\ answer = "none"
    /\ cliLast = NoEvent

NoSafetyResult == [valid |-> FALSE, reason |-> NoReason, safePath |-> <<>>]

SafetyIdle ==
    /\ smConfig = CoreSafetyConfig
    /\ smPath = <<>>
    /\ smResult = NoSafetyResult

SecureIdle ==
    /\ ssConfig = [enablePathTraversalProtection |-> TRUE, blockedPaths |-> {},
                   allowedExtensions |-> {}, maxFileSize |-> 10, maxRequestSize |-> 10]
    /\ ssQueue = <<>>
    /\ ssCalls = <<>>
    /\ accessLog = <<>>

PipelineIdle ==
    /\ handler = "default"
    /\ toolCalls = <<>>
    /\ callIdx = 1
    /\ pc = "create"
    /\ confirmation = NoConfirmation
    /\ conversation = <<>>
    /\ stages = <<>>
    /\ locals = NoLocals
    /\ fsBefore = fs
    /\ abortFired = FALSE

safetyVars == <<smConfig, smPath, smResult>>
secureVars == <<ssConfig, ssQueue, ssCalls, accessLog>>
pipelineVars ==
    <<handler, toolCalls, callIdx, pc, confirmation, conversation, stages, locals,
      fsBefore, abortFired>>

rateVars ==
    <<rlConfig, algorithm, entries, now, totalRequests, blockedRequests, rlLast, windows,
     buckets,
      expectation, unswept, cleanupInterval>>
retryVars == <<retryConfig, attempt, retryPc, lastError, thrown, trace>>

registryVars == <<tools, regLast>>

cliVars == <<ctrlCCount, timers, clock, exited, mainPc, answer, cliLast>>

sendVars ==
    <<modelFound, attempts, sendPc, modelResponse, turn, modelCalls, withTools, sendOutcome>>

vars ==
    <<fs, safetyVars, secureVars, pipelineVars, rateVars, retryVars, registryVars, cliVars,
      sendVars>>

(***************************************************************************)
(* The environment of the calls: every await lets other callbacks and      *)
(* other processes run.                                                    *)
(***************************************************************************)
\* the file another process rewrites, and what it writes: 11 bytes, more than
\* a maxFileSize of 10 allows to read
RewrittenFile == Child(RootDir, NameFT)

RewrittenContent == [i \in 1..11 |-> "o"]

\* a tool call is being processed, or a call of validateFilePath has not returned
CallInProgress ==
    \/ callIdx <= Len(toolCalls)
    \/ \E c \in DOMAIN ssCalls : ssCalls[c].pc # "returned"

\* another process rewrites a file of the workspace while a call is in progress
FileRewritten ==
    /\ CallInProgress
    /\ Kind(fs, RewrittenFile) = "file"
    /\ fs[RewrittenFile].content # RewrittenContent
    /\ fs' = [fs EXCEPT ![RewrittenFile] = FileNode(RewrittenContent)]
    /\ fsBefore' = [fsBefore EXCEPT ![RewrittenFile] = FileNode(RewrittenContent)]
    /\ UNCHANGED <<sendVars, cliVars, safetyVars, secureVars, rateVars, retryVars,
                   registryVars, handler, toolCalls, callIdx, pc, confirmation,
                   conversation, stages, locals, abortFired>>

\* the caller has chosen the path to validate; the validator has not run yet
SafetyInit ==
    /\ fs \in FsWorlds
    /\ smConfig \in SafetyConfigs
    /\ smPath \in RequestPaths
    /\ smResult = NoSafetyResult
    /\ RateIdle
    /\ RetryIdle
    /\ CliIdle
    /\ SendIdle
    /\ RegistryIdle
    /\ SecureIdle
    /\ PipelineIdle

ValidateFilePath ==
    /\ smResult = NoSafetyResult
    /\ smResult' = SMValidateFilePath(smConfig, Cwd, smPath)
    /\ UNCHANGED <<sendVars, cliVars, fs, smConfig, smPath, secureVars, pipelineVars,
                   rateVars, retryVars,
                   registryVars>>

SafetyNext == ValidateFilePath

SpecSafety == SafetyInit /\ [][SafetyNext]_vars

\* C2: validateFilePath returns valid:true only for a path whose resolved
\* location is the root directory or a descendant of it; a sibling directory
\* whose name starts with the root's name, or a path leaving the root through
\* a symbolic link, is never valid.
SafetyContainment ==
    smResult.valid => WithinRoot(ResolvedLocation(fs, Cwd, smResult.safePath), RootDir)

(***************************************************************************)
(* Specification SpecSecure: SecureSafetyManager.validateFilePath called   *)
(* on an arbitrary requested path and operation.                           *)
(***************************************************************************)
\* stands for U+0001, a control character that is neither NUL nor whitespace
SOH == "1"

\* requested paths with a null byte or another control character: alone, at
\* the end of the name of an existing file, in the name of a new file, and
\* in a path that leaves the root
ControlPaths ==
    { <<NUL>>, NameF \o <<NUL>>, JoinSegs(<<NameD, <<NUL>> \o NameN>>),
      Child(OutsideDir, NameF \o <<NUL>>),
      <<SOH>>, NameF \o <<SOH>>, JoinSegs(<<NameD, <<SOH>> \o NameN>>),
      Child(OutsideDir, NameF \o <<SOH>>) }

\* a world with a link inside the root to the blocked directory, and a dangling
\* link inside the root whose target is a file of that directory that does not
\* exist yet
NameX == <<"x">>
NameY == <<"y">>

BlockedLinkFs ==
    (Child(RootDir, NameX) :> LinkNode(Child(RootDir, NameD)))
    @@ (Child(RootDir, NameY) :> LinkNode(Child(Child(RootDir, NameD), NameN)))

SecureWorlds == FsWorlds \cup {BaseFs @@ BlockedLinkFs}

\* requests through the links of that world
BlockedLinkPaths == { NameX, JoinSegs(<<NameX, NameN>>), NameY }

\* a rootDirectory that does not exist
MissingRoot == Child(RootDir, NameN)

\* the requests: any path and operation with the root directory as
\* rootDirectory, and some without a rootDirectory (<<>>: the working directory
\* is taken) or with one that does not exist
SecureRequests ==
    [path : RequestPaths \cup ControlPaths \cup BlockedLinkPaths,
     operation : FileOperations, root : {RootDir}]
    \cup [path : {NameF, NameD, Child(OutsideDir, NameF), <<NUL>>},
          operation : {"read", "write"}, root : {<<>>, MissingRoot}]

SecureInit ==
    /\ fs \in SecureWorlds
    /\ RateIdle
    /\ RetryIdle
    /\ CliIdle
    /\ SendIdle
    /\ RegistryIdle
    /\ SafetyIdle
    /\ ssConfig \in SecurityConfigs
    /\ ssQueue \in { <<request>> : request \in SecureRequests }
    /\ ssCalls = <<>>
    /\ accessLog = <<>>
    /\ PipelineIdle

\* a step of call c: the call as it is afterwards, and the entry that logAndReturn
\* pushes when the call returns
SecureResume(c, call) ==
    /\ ssCalls' = IF c \in DOMAIN ssCalls THEN [ssCalls EXCEPT ![c] = call]
                   ELSE Append(ssCalls, call)
    /\ accessLog' = IF call.pc = "returned"
                       THEN LogAppend(accessLog, call.request, call.result)
                     ELSE accessLog
    /\ UNCHANGED <<sendVars, cliVars, fs, safetyVars, ssConfig, ssQueue, pipelineVars,
                   rateVars, retryVars, registryVars>>

\* a caller calls validateFilePath with its next request; the call runs to its
\* first await
SecureValidateFilePath ==
    /\ Len(ssCalls) < Len(ssQueue)
    /\ \E call \in {SSStart(NewCall(ssQueue[Len(ssCalls) + 1]))} :
          SecureResume(Len(ssCalls) + 1, call)

\* the call awaiting a system call at pc goes on with its outcome
SecureAwaited(c, at) ==
    /\ ssCalls[c].pc = at
    /\ \E call \in {SSStep(ssConfig, fs, Cwd, ssCalls[c])} : SecureResume(c, call)

SecureRealpath == \E c \in DOMAIN ssCalls : SecureAwaited(c, "realpath")

SecureRealpathDir == \E c \in DOMAIN ssCalls : SecureAwaited(c, "realpath_dir")

SecureRealpathRoot == \E c \in DOMAIN ssCalls : SecureAwaited(c, "realpath_root")

SecureStat == \E c \in DOMAIN ssCalls : SecureAwaited(c, "stat")

\* SecureSafetyManager.clearAccessLog
ClearAccessLog ==
    /\ accessLog # <<>>
    /\ accessLog' = <<>>
    /\ UNCHANGED <<sendVars, cliVars, fs, safetyVars, ssConfig, ssQueue, ssCalls,
                   pipelineVars, rateVars, retryVars, registryVars>>

SecureNext ==
    \/ SecureValidateFilePath
    \/ SecureRealpath
    \/ SecureRealpathDir
    \/ SecureRealpathRoot
    \/ SecureStat
    \/ ClearAccessLog

SpecSecure == SecureInit /\ [][SecureNext]_vars

(***************************************************************************)
(* Specification SpecLog: validateFilePath called on a SecureSafetyManager *)
(* whose access log holds the attempts of earlier calls: none, one less    *)
(* than maxAccessLogEntries, or maxAccessLogEntries of them.               *)
(***************************************************************************)
\* the requests of the earlier calls, repeated in this order
PastRequests ==
    << [path |-> NameF, operation |-> "read", root |-> RootDir],
       [path |-> Child(OutsideDir, NameF), operation |-> "read", root |-> RootDir],
       [path |-> NameN, operation |-> "write", root |-> RootDir] >>

\* the access log after n earlier calls
PastEntry(config, f, request) ==
    CHOOSE logged \in
      { LogAppend(<<>>, request, result)[1] :
          result \in { SSValidateFilePath(config, f, Cwd, request.path, request.operation,
                                          request.root) } } : TRUE

PastLog(config, f, n) ==
    CHOOSE log \in
      { [i \in 1..(n - first + 1) |-> past[((first + i - 2) % 3) + 1]] :
          past \in { <<PastEntry(config, f, PastRequests[1]),
                       PastEntry(config, f, PastRequests[2]),
                       PastEntry(config, f, PastRequests[3])>> },
          first \in { IF n > MaxAccessLogEntries THEN n - MaxAccessLogEntries + 1 ELSE 1 } } :
      TRUE

PastCalls == {0, 1, MaxAccessLogEntries - 1, MaxAccessLogEntries, MaxAccessLogEntries + 1}

LogRequests ==
    [path : CallPaths \cup ControlPaths \cup {JoinSegs(<<NameF, NameN>>), NameFT},
     operation : {"read", "write"}, root : {RootDir}]

\* requests made while an earlier call awaits: one that is refused before its
\* first await, and a read
ConcurrentRequests ==
    { [path |-> <<"<">>, operation |-> "write", root |-> RootDir],
      [path |-> NameFT, operation |-> "read", root |-> RootDir] }

\* the calls made of one manager: one call, or a call and a second one made
\* before the first has returned
LogQueues ==
    { <<request>> : request \in LogRequests }
    \cup { <<PastRequests[i], request>> : i \in 1..3, request \in ConcurrentRequests }

LogInit ==
    /\ fs \in FsWorlds
    /\ RateIdle
    /\ RetryIdle
    /\ CliIdle
    /\ SendIdle
    /\ RegistryIdle
    /\ SafetyIdle
    /\ PipelineIdle
    /\ ssConfig \in SecurityConfigs
    /\ ssQueue \in LogQueues
    /\ ssCalls = <<>>
    /\ \E n \in PastCalls : accessLog = PastLog(ssConfig, fs, n)

LogNext ==
    \/ SecureNext
    \/ FileRewritten

SpecLog == LogInit /\ [][LogNext]_vars

\* the root of a request: its rootDirectory, or the working directory
RootOf(cwd, request) == IF request.root = <<>> THEN cwd ELSE request.root

\* C3: with path traversal protection enabled, validateFilePath returns
\* allowed:true only if the location the path resolves to, symbolic links
\* followed (also when the target or its parent does not exist yet), is the
\* canonical root or a descendant of it.
SecureContainment ==
    \A c \in DOMAIN ssCalls :
        (ssConfig.enablePathTraversalProtection /\ ssCalls[c].result.allowed)
            => WithinRoot(ResolvedLocation(fs, Cwd, ssCalls[c].result.canonicalPath),
                          RootOf(Cwd, ssCalls[c].request))

(***************************************************************************)
(* Specification SpecPipeline: CoreManager.executeToolCalls processing the *)
(* tool calls of one model response, one step per awaited operation.       *)
(***************************************************************************)
CallSeqs == UNION { [1..n -> ToolCalls] : n \in 1..MaxCalls }

PipelineInit ==
    /\ fs \in FsWorlds
    /\ RateIdle
    /\ RetryIdle
    /\ CliIdle
    /\ SendIdle
    /\ RegistryIdle
    /\ SafetyIdle
    /\ SecureIdle
    /\ handler \in {"default", "injected"}
    /\ toolCalls \in CallSeqs
    /\ callIdx = 1
    /\ pc = "create"
    /\ confirmation = NoConfirmation
    /\ conversation = <<>>
    /\ stages = [i \in 1..Len(toolCalls) |-> <<>>]
    /\ locals = NoLocals
    /\ fsBefore = fs
    /\ abortFired = FALSE

CurrentCall == toolCalls[callIdx]

AddStages(steps) == [stages EXCEPT ![callIdx] = @ \o steps]

\* a loop that leaves out the call after the current one
NextCallSkipping(f) ==
    /\ callIdx' = callIdx + 2
    /\ pc' = "create"
    /\ fsBefore' = f

\* the loop moves on to the next tool call
NextCall(f) ==
    /\ callIdx' = callIdx + 1
    /\ pc' = "create"
    /\ fsBefore' = f

\* toolRegistry.createInvocation: lookup, then parameterSchema.parse
CreateInvocation ==
    /\ pc = "create" /\ callIdx <= Len(toolCalls)
    /\ confirmation' = NoConfirmation
    /\ IF CurrentCall.name \notin RegisteredTools
         THEN /\ conversation' = Append(conversation,
                    FailedMessage(callIdx, "Unknown tool: ", <<>>))
              /\ stages' = AddStages(<<"not_found">>)
              /\ NextCall(fs)
       ELSE IF ~ParamsValid(CurrentCall.name, CurrentCall.parameters)
         THEN /\ conversation' = Append(conversation,
                    FailedMessage(callIdx, "Parameter validation failed: ", <<>>))
              /\ stages' = AddStages(<<"invalid">>)
              /\ NextCall(fs)
       ELSE /\ stages' = AddStages(<<"validated">>)
            /\ pc' = "should_confirm"
            /\ UNCHANGED <<conversation, callIdx, fsBefore>>
    /\ UNCHANGED <<sendVars, cliVars, fs, safetyVars, secureVars, rateVars, retryVars,
                   registryVars, handler,
                   toolCalls, abortFired, locals>>

\* invocation.shouldConfirmExecute
ShouldConfirmExecute ==
    /\ pc = "should_confirm"
    /\ stages' = AddStages(IF CurrentCall.name = "write_file" THEN <<"access">> ELSE <<>>)
    /\ pc' = IF ShouldConfirm(fs, Cwd, CurrentCall) THEN "confirm" ELSE "execute"
    /\ UNCHANGED <<sendVars, cliVars, fs, safetyVars, secureVars, rateVars, retryVars,
                   registryVars, handler,
                   toolCalls, abortFired, callIdx, confirmation, conversation, fsBefore,
                   locals>>

\* confirmationManager.requestConfirmation and the branch on its outcome
RequestConfirmation ==
    /\ pc = "confirm"
    /\ \E response \in HandlerResponses(handler, CurrentCall) :
          /\ confirmation' = response
          /\ stages' = AddStages(<<"confirm_request", response.outcome>>)
          /\ IF NotApproved(response)
               THEN /\ conversation' = Append(conversation,
                                              CancelledMessage(callIdx, response))
                    /\ NextCall(fs)
             ELSE /\ pc' = "execute"
                  /\ UNCHANGED <<conversation, callIdx, fsBefore>>
    /\ UNCHANGED <<sendVars, cliVars, fs, safetyVars, secureVars, rateVars, retryVars,
                   registryVars, handler,
                   toolCalls, abortFired, locals>>

\* executeToolCalls while invocation.execute runs: the steps are recorded; when
\* execute awaits a system call the loop waits at it; when execute has returned
\* the result is pushed, when it has thrown the catch pushes the error, and the
\* loop moves on to the next call
Resume(result) ==
    /\ fs' = result.fs
    /\ IF result.pc = "done"
         THEN /\ stages' = AddStages(result.steps
                                      \o (IF result.ok THEN <<>> ELSE <<"error">>))
              /\ conversation' = Append(conversation,
                    IF result.ok THEN ToolMessage(callIdx, "", result.msg, result.arg)
                    ELSE ReasonedMessage(callIdx, "Tool execution failed: ",
                                         result.msg, result.reason, result.arg))
              /\ locals' = NoLocals
              /\ NextCall(result.fs)
       ELSE /\ stages' = AddStages(result.steps)
            /\ pc' = result.pc
            /\ locals' = result.locals
            /\ UNCHANGED <<conversation, callIdx, fsBefore>>
    /\ UNCHANGED <<sendVars, cliVars, safetyVars, secureVars, rateVars, retryVars,
                   registryVars, handler, toolCalls, abortFired, confirmation>>

\* invocation.execute is called and runs to its first system call
Execute ==
    /\ pc = "execute"
    /\ \E result \in {InvocationExecute(smConfig, fs, Cwd, CurrentCall)} :
          Resume([result EXCEPT !.steps = <<"execute">> \o @])

\* write_file: the mkdir of the parent directory completes
ExecuteMkdir ==
    /\ pc = "mkdir"
    /\ \E result \in {WriteFileMkdir(fs, CurrentCall.parameters, locals)} : Resume(result)

\* write_file: the writeFile completes
ExecuteWriteFile ==
    /\ pc = "write_file"
    /\ \E result \in {WriteFileWrite(fs, Cwd, CurrentCall.parameters, locals)} :
          Resume(result)

\* read_file: the stat of the size check completes
ExecuteFileSize ==
    /\ pc = "stat"
    /\ \E result \in {ReadFileSize(smConfig, fs, Cwd, locals)} : Resume(result)

\* read_file: the access completes
ExecuteAccess ==
    /\ pc = "access"
    /\ \E result \in {ReadFileAccess(fs, Cwd, CurrentCall.parameters, locals)} :
          Resume(result)

\* read_file: the readFile completes
ExecuteReadFile ==
    /\ pc = "read_file"
    /\ \E result \in {ReadFileRead(fs, Cwd, CurrentCall.parameters, locals)} :
          Resume(result)

\* list_directory: the stat of the directory completes
ExecuteStat ==
    /\ pc = "stat_dir"
    /\ \E result \in {ListDirectoryStat(fs, Cwd, CurrentCall.parameters, locals)} :
          Resume(result)

\* list_directory: the readdir completes
ExecuteReaddir ==
    /\ pc = "readdir"
    /\ \E result \in {ListDirectoryList(fs, Cwd, CurrentCall.parameters, locals)} :
          Resume(result)

\* list_directory: the stat of an item completes
ExecuteStatItem ==
    /\ pc = "stat_item"
    /\ \E result \in {ListDirectoryItem(fs, Cwd, CurrentCall.parameters, locals)} :
          Resume(result)

\* where the loop stands while invocation.execute awaits a system call
ExecutePcs ==
    {"mkdir", "write_file", "stat", "access", "read_file", "stat_dir", "readdir",
     "stat_item"}

\* new AbortController().signal, the signal executeToolCalls hands to
\* shouldConfirmExecute and execute: it never fires
InvocationSignal(callerSignal) == FALSE

\* the caller's abortSignal fires while the tool calls are being processed
Abort ==
    /\ ~abortFired /\ callIdx <= Len(toolCalls)
    /\ abortFired' = TRUE
    /\ stages' = AddStages(<<"abort">>)
    /\ UNCHANGED <<sendVars, cliVars, fs, safetyVars, secureVars, rateVars, retryVars,
                   registryVars, handler,
                   toolCalls, callIdx, pc, confirmation, conversation, fsBefore,
                   locals>>

PipelineNext ==
    \/ CreateInvocation
    \/ ShouldConfirmExecute
    \/ RequestConfirmation
    \/ Execute
    \/ ExecuteMkdir
    \/ ExecuteWriteFile
    \/ ExecuteFileSize
    \/ ExecuteAccess
    \/ ExecuteReadFile
    \/ ExecuteStat
    \/ ExecuteReaddir
    \/ ExecuteStatItem
    \/ Abort

SpecPipeline == PipelineInit /\ [][PipelineNext]_vars

(***************************************************************************)
(* Turns of a single call, through the same pipeline actions as above:     *)
(* write_file calls with sized content, and calls whose relative path has  *)
(* '..' segments.  SecureSafetyManager owns the only content size check of *)
(* the repository (validateContentSize, against maxRequestSize); sizes are *)
(* in bytes of one-byte characters.                                        *)
(***************************************************************************)
MaxRequestSize == 1

LargeContent == [i \in 1..(MaxRequestSize + 1) |-> "n"]

SecurityRequestConfig == [maxRequestSize |-> MaxRequestSize]

\* SecureSafetyManager.validateContentSize
ValidateContentSize(config, content) ==
    IF config.maxRequestSize # 0 /\ Len(content) > config.maxRequestSize
      THEN [allowed |-> FALSE,
            reason |-> [msg |-> "Content size exceeds maximum allowed",
                        size |-> Len(content), max |-> config.maxRequestSize]]
    ELSE [allowed |-> TRUE, reason |-> [msg |-> "", size |-> Len(content), max |-> 0]]

SizedWriteCalls ==
    { [name |-> "write_file",
       parameters |-> [path |-> StringField(path), content |-> StringField(content),
                       create_dirs |-> createDirs]] :
        path \in {NameF, NameN, JoinSegs(<<NameN, NameF>>)},
        content \in {NewContent, LargeContent},
        createDirs \in {UndefinedField, BooleanField(TRUE)} }

\* relative paths with '..' segments: to a file outside the root, the same
\* through more and nested segments, to a file that does not exist outside,
\* into the sibling directory whose name starts with the root's, and two
\* that stay inside the root
TraversalPaths ==
    { JoinSegs(<<DotDot, NameQ, NameF>>),
      JoinSegs(<<DotDot, DotDot, NameQ, NameF>>),
      JoinSegs(<<NameD, DotDot, DotDot, DotDot, NameQ, NameF>>),
      JoinSegs(<<DotDot, NameQ, NameN>>),
      JoinSegs(<<DotDot, NamePQ, NameF>>),
      JoinSegs(<<DotDot, NameP, NameF>>),
      JoinSegs(<<NameD, DotDot, NameF>>) }

TraversalCalls ==
    { [name |-> tool,
       parameters |-> [path |-> StringField(path), content |-> UndefinedField,
                       create_dirs |-> UndefinedField]] :
        tool \in {"read_file", "list_directory"}, path \in TraversalPaths }

\* A write through a symbolic link to a directory and back up with '..': the system
\* call walks to the parent of the link's target, path.resolve to the parent of the link.
LinkedWriteCalls ==
    { [name |-> "write_file",
       parameters |-> [path |-> StringField(JoinSegs(<<NameL, DotDot, NameQ>>)),
                       content |-> StringField(NewContent),
                       create_dirs |-> UndefinedField]] }

\* calls whose execute makes several system calls on files of the workspace
RacingCalls ==
    { [name |-> "read_file",
       parameters |-> [path |-> StringField(NameFT), content |-> UndefinedField,
                       create_dirs |-> UndefinedField]],
      [name |-> "list_directory",
       parameters |-> [path |-> StringField(Dot), content |-> UndefinedField,
                       create_dirs |-> UndefinedField]] }

\* calls whose path holds a null byte
NullByteCalls ==
    { [name |-> "write_file",
       parameters |-> WriteParams(JoinSegs(<<NameD, <<NUL>> \o NameN>>), BooleanField(TRUE))],
      [name |-> "read_file",
       parameters |-> [path |-> StringField(NameF \o <<NUL>>), content |-> UndefinedField,
                       create_dirs |-> UndefinedField]] }

\* the configuration CoreManager builds from the CoreConfig of the CLI, from
\* one without the optional maxFileSize (0 stands for the missing value: both
\* are falsy) and from one with a maxFileSize of 10 bytes
CoreSafetyConfigs ==
    { CoreSafetyConfig,
      [CoreSafetyConfig EXCEPT !.maxFileSize = 0],
      [CoreSafetyConfig EXCEPT !.maxFileSize = 10] }

SingleCallInit ==
    /\ fs \in FsWorlds
    /\ RateIdle
    /\ RetryIdle
    /\ CliIdle
    /\ SendIdle
    /\ RegistryIdle
    /\ smConfig \in CoreSafetyConfigs
    /\ smPath = <<>>
    /\ smResult = NoSafetyResult
    /\ SecureIdle
    /\ handler \in {"default", "injected"}
    /\ toolCalls \in { <<call>> : call \in SizedWriteCalls \cup TraversalCalls
                                      \cup LinkedWriteCalls \cup RacingCalls
                                      \cup NullByteCalls }
    /\ callIdx = 1
    /\ pc = "create"
    /\ confirmation = NoConfirmation
    /\ conversation = <<>>
    /\ stages = [i \in 1..Len(toolCalls) |-> <<>>]
    /\ locals = NoLocals
    /\ fsBefore = fs
    /\ abortFired = FALSE

SingleCallNext ==
    \/ PipelineNext
    \/ FileRewritten

SpecSingleCall == SingleCallInit /\ [][SingleCallNext]_vars

OverLimit(call) ==
    /\ call.name = "write_file"
    /\ call.parameters.content.t = "string"
    /\ ~ValidateContentSize(SecurityRequestConfig, call.parameters.content.s).allowed

\* position of the first occurrence of a step among the steps of a call (0: none)
FirstIndex(steps, step) ==
    IF \E k \in 1..Len(steps) : steps[k] = step
      THEN CHOOSE k \in 1..Len(steps) :
              steps[k] = step /\ \A j \in 1..(k - 1) : steps[j] # step
    ELSE 0

Precedes(steps, first, second) ==
    FirstIndex(steps, first) > 0 /\ FirstIndex(steps, first) < FirstIndex(steps, second)

\* C1: the execute step of a call runs only after validation, the security
\* check of its path and rate-limit admission (and confirmation, if required),
\* in that order; no confirmation request is emitted and the requested path
\* is not accessed before the security check has allowed the path.
PipelineOrder ==
    \A i \in 1..Len(stages) :
        LET steps == stages[i]
        IN /\ \A step \in {"access", "confirm_request", "execute"} :
                 FirstIndex(steps, step) > 0 => Precedes(steps, "security_allowed", step)
           /\ FirstIndex(steps, "execute") > 0 =>
                 /\ Precedes(steps, "validated", "security_allowed")
                 /\ Precedes(steps, "security_allowed", "rate_admitted")
                 /\ Precedes(steps, "rate_admitted", "execute")

\* C4: a write_file execution that overwrites a file existing at the moment
\* of the write was preceded, for the same invocation, by a confirmation
\* request answered Approved.
OverwriteConfirmed ==
    \A i \in 1..Len(stages) :
        FirstIndex(stages[i], "overwrite") > 0 =>
            /\ Precedes(stages[i], "confirm_request", "approved")
            /\ Precedes(stages[i], "approved", "overwrite")

\* the step-by-step form of C5: the step that receives the response
DeniedStep ==
    (pc = "confirm" /\ confirmation'.outcome \in {"denied", "cancelled"}) =>
        /\ pc' = "create" /\ callIdx' = callIdx + 1
        /\ fs' = fsBefore
        /\ FirstIndex(stages'[callIdx], "execute") = 0
        /\ Len(conversation') = Len(conversation) + 1
        /\ LET message == conversation'[Len(conversation')]
           IN /\ message.toolCallId = callIdx
              /\ message.content.prefix = "Tool execution cancelled by user: "
              /\ (confirmation'.hasMessage /\ confirmation'.message # <<>>)
                    => message.content.arg = confirmation'.message

\* C5: when the confirmation response of an invocation is Denied or Cancelled,
\* its execute step never runs, the filesystem is as it was when the call
\* started, and the result of the call is a cancellation message carrying the
\* user's reason if one was given, not an error.
DeniedShortCircuits ==
    /\ [](\A i \in 1..Len(stages) :
            (FirstIndex(stages[i], "denied") > 0 \/ FirstIndex(stages[i], "cancelled") > 0)
                => FirstIndex(stages[i], "execute") = 0)
    /\ [][DeniedStep]_vars

\* a write to an existing file was denied with a reason and its result pushed
DeniedWitness ==
    \E i \in 1..Len(stages) :
        /\ toolCalls[i].name = "write_file"
        /\ FirstIndex(stages[i], "denied") > 0
        /\ Len(conversation) >= i
        /\ conversation[i].content.arg = UserReason
        /\ fs = fsBefore

(***************************************************************************)
(* Specification SpecRate: one RateLimiter, calls of checkLimit and        *)
(* consume for two keys, the cleanup sweep, and the clock.                 *)
(***************************************************************************)
\* The window a key's calls define: it starts with the key's first call, or
\* with its first call once windowSizeMs has passed since the start of the
\* previous one; a fixed window starts at the multiple of windowSizeMs at or
\* before that call.
WindowStartAt(config, alg, t) ==
    IF alg = "fixed_window" THEN (t \div config.windowSizeMs) * config.windowSizeMs ELSE t

WindowExpired(config, ws, key, t) ==
    key \notin DOMAIN ws \/ t >= ws[key].start + config.windowSizeMs

\* the window of the key at a call made at time t, that call counted;
\* under fixed window `admitted` counts the calls allowed in the window (up to
\* one more than requestsPerMinute) and `previous` those allowed in the window
\* that ended where this one starts
WindowAt(config, alg, ws, key, t) ==
    IF WindowExpired(config, ws, key, t)
      THEN [start |-> WindowStartAt(config, alg, t), calls |-> 1, denied |-> FALSE,
            admitted |-> 0,
            previous |-> IF /\ key \in DOMAIN ws
                            /\ WindowStartAt(config, alg, t) = ws[key].start + config.windowSizeMs
                           THEN ws[key].admitted
                         ELSE 0]
    ELSE [ws[key] EXCEPT !.calls = Min(@ + 1, config.requestsPerMinute + 1)]

NoBucket == [at |-> -1, calls |-> 0, admitted |-> 0, emptiedAt |-> -1, due |-> FALSE]

\* What the callers of a key have seen of its token bucket, the call made at
\* time t with the given result counted: the calls and admissions at the
\* instant of the first call made while the key had no entry, the time an
\* admission left no token (remaining 0), and whether this call is the first
\* one at least ceil(windowSizeMs / requestsPerMinute) ms after that time.
BucketAt(config, bs, es, key, t, result) ==
    LET pre == IF key \in DOMAIN bs THEN bs[key] ELSE NoBucket
        admitted == IF result.allowed THEN 1 ELSE 0
        due == /\ pre.emptiedAt >= 0
               /\ t >= pre.emptiedAt + CeilDiv(config.windowSizeMs, config.requestsPerMinute)
    IN [at |-> IF key \notin DOMAIN es THEN t ELSE pre.at,
        calls |-> IF key \notin DOMAIN es THEN 1
                  ELSE IF pre.at = t THEN pre.calls + 1 ELSE pre.calls,
        admitted |-> IF key \notin DOMAIN es THEN admitted
                     ELSE IF pre.at = t THEN pre.admitted + admitted ELSE pre.admitted,
        emptiedAt |-> IF result.allowed
                        THEN IF result.remaining = 0 THEN t ELSE -1
                      ELSE IF due THEN -1 ELSE pre.emptiedAt,
        due |-> due]

Observe(key, result) ==
    LET window == WindowAt(rlConfig, algorithm, windows, key, now)
    IN /\ expectation' =
            [allowed |-> window.calls <= rlConfig.requestsPerMinute,
             afterDenial |-> /\ key \in DOMAIN windows
                             /\ WindowExpired(rlConfig, windows, key, now)
                             /\ windows[key].denied]
       /\ windows' = (key :> [window EXCEPT !.denied = @ \/ ~result.allowed,
                                            !.admitted =
                                                IF rlConfig.enabled
                                                   /\ algorithm = "fixed_window"
                                                  THEN Min(@ + IF result.allowed THEN 1 ELSE 0,
                                                           rlConfig.requestsPerMinute + 1)
                                                ELSE 0])
                      @@ windows
       /\ buckets' = IF rlConfig.enabled /\ algorithm = "token_bucket"
                       THEN (key :> BucketAt(rlConfig, buckets, entries, key, now, result))
                            @@ buckets
                     ELSE buckets

RateInit ==
    /\ fs = BaseFs
    /\ SafetyIdle
    /\ SecureIdle
    /\ PipelineIdle
    /\ RetryIdle
    /\ CliIdle
    /\ SendIdle
    /\ RegistryIdle
    /\ \/ rlConfig \in RateLimitConfigs /\ algorithm = "token_bucket"
       \/ rlConfig \in WindowConfigs /\ algorithm \in Algorithms
       \/ rlConfig \in InexactRefillConfigs /\ algorithm = "token_bucket"
    /\ entries = NoEntries
    /\ now = 0
    /\ totalRequests = 0
    /\ blockedRequests = 0
    /\ rlLast = NoCall
    /\ windows = NoEntries
    /\ buckets = NoEntries
    /\ expectation = NoExpectation
    /\ unswept = NoEntries
    /\ cleanupInterval = TRUE

\* a caller calls checkLimit(key)
CheckLimitCall(key) ==
    /\ totalRequests < MaxRequests
    /\ LET checked == CheckLimit(rlConfig, algorithm, entries, key, now)
       IN /\ entries' = checked.entries
          /\ totalRequests' = totalRequests + checked.counted
          /\ rlLast' = [op |-> "checkLimit", key |-> key, result |-> checked.result,
                        raised |-> FALSE, raisedRetryAfter |-> 0]
          /\ Observe(key, checked.result)
          /\ unswept' = CheckLimit(rlConfig, algorithm, unswept, key, now).entries
    /\ UNCHANGED <<sendVars, cliVars, fs, safetyVars, secureVars, pipelineVars, retryVars,
                   registryVars,
                   rlConfig, algorithm, now, blockedRequests, cleanupInterval>>

\* a caller calls consume(key): checkLimit, then the RateLimitError on a denial
ConsumeCall(key) ==
    /\ totalRequests < MaxRequests
    /\ LET checked == CheckLimit(rlConfig, algorithm, entries, key, now)
       IN /\ entries' = checked.entries
          /\ totalRequests' = totalRequests + checked.counted
          /\ blockedRequests' = IF checked.result.allowed THEN blockedRequests
                                ELSE blockedRequests + 1
          /\ rlLast' = [op |-> "consume", key |-> key, result |-> checked.result,
                        raised |-> ~checked.result.allowed,
                        raisedRetryAfter |-> IF checked.result.allowed THEN 0
                                             ELSE RaisedRetryAfter(checked.result)]
          /\ Observe(key, checked.result)
          /\ unswept' = CheckLimit(rlConfig, algorithm, unswept, key, now).entries
    /\ UNCHANGED <<sendVars, cliVars, fs, safetyVars, secureVars, pipelineVars, retryVars,
                   registryVars,
                   rlConfig, algorithm, now, cleanupInterval>>

\* a caller calls getRemaining(key): the call of checkLimit it makes, of whose
\* result it returns `remaining`
GetRemainingCall(key) == CheckLimitCall(key)

\* this.entries.delete(key)
EntriesDelete(es, key) == [k \in DOMAIN es \ {key} |-> es[k]]

\* a caller calls reset(key): the entry of the key is deleted (for a key without
\* an entry the call changes nothing).  What the callers saw of the key ends
\* with it: the next call of the key is its first again.
Reset(key) ==
    /\ key \in DOMAIN entries
    /\ entries' = EntriesDelete(entries, key)
    /\ rlLast' = NoCall
    /\ windows' = EntriesDelete(windows, key)
    /\ buckets' = EntriesDelete(buckets, key)
    /\ expectation' = NoExpectation
    /\ unswept' = EntriesDelete(unswept, key)
    /\ UNCHANGED <<sendVars, cliVars, fs, safetyVars, secureVars, pipelineVars, retryVars,
                   registryVars,
                   rlConfig, algorithm, now, totalRequests, blockedRequests,
                   cleanupInterval>>

\* what the callers saw of the limiter ends when its entries are cleared
Forgotten ==
    /\ rlLast' = NoCall
    /\ windows' = NoEntries
    /\ buckets' = NoEntries
    /\ expectation' = NoExpectation
    /\ unswept' = NoEntries

\* a caller calls resetAll(): the entries are cleared, the two counters start again
ResetAll ==
    /\ entries' = NoEntries
    /\ totalRequests' = 0
    /\ blockedRequests' = 0
    /\ Forgotten
    /\ UNCHANGED <<sendVars, cliVars, fs, safetyVars, secureVars, pipelineVars, retryVars,
                   registryVars,
                   rlConfig, algorithm, now, cleanupInterval>>

\* a caller calls shutdown(): the sweep timer is cleared and so are the entries
Shutdown ==
    /\ cleanupInterval' = FALSE
    /\ entries' = NoEntries
    /\ Forgotten
    /\ UNCHANGED <<sendVars, cliVars, fs, safetyVars, secureVars, pipelineVars, retryVars,
                   registryVars,
                   rlConfig, algorithm, now, totalRequests, blockedRequests>>

\* a caller calls cleanup()
CleanupCall ==
    /\ entries' = Cleanup(rlConfig, entries, now)
    /\ UNCHANGED <<sendVars, cliVars, fs, safetyVars, secureVars, pipelineVars, retryVars,
                   registryVars,
                   rlConfig, algorithm, now, totalRequests, blockedRequests, rlLast,
                   windows, buckets, expectation, unswept, cleanupInterval>>

\* the cleanup interval fires, while the timer is set
CleanupSweep ==
    /\ cleanupInterval
    /\ CleanupCall

\* a millisecond passes
Tick ==
    /\ now < MaxNow
    /\ now' = now + 1
    /\ UNCHANGED <<sendVars, cliVars, fs, safetyVars, secureVars, pipelineVars, retryVars,
                   registryVars,
                   rlConfig, algorithm, entries, totalRequests, blockedRequests, rlLast,
                   windows, buckets, expectation, unswept, cleanupInterval>>

RateNext ==
    \/ \E key \in Keys : CheckLimitCall(key)
    \/ \E key \in Keys : ConsumeCall(key)
    \/ \E key \in Keys : GetRemainingCall(key)
    \/ \E key \in Keys : Reset(key)
    \/ ResetAll
    \/ Shutdown
    \/ CleanupCall
    \/ CleanupSweep
    \/ Tick

SpecRate == RateInit /\ [][RateNext]_vars

\* the limiter under the configurations of one window size and no burst
QueryConfigs ==
    { config \in RateLimitConfigs :
        config.windowSizeMs = 2 /\ config.burstLimit = config.requestsPerMinute }

QueryInit == RateInit /\ rlConfig \in QueryConfigs

SpecQuery == QueryInit /\ [][RateNext]_vars

WindowAlgorithm == rlConfig.enabled /\ algorithm \in {"sliding_window", "fixed_window"}

\* C6: under sliding and fixed window, from the call that starts a key's
\* window the first requestsPerMinute calls of the key in the window are
\* allowed and every further call before the window has elapsed is denied.
WindowAdmission ==
    (WindowAlgorithm /\ rlLast.op # "none")
        => rlLast.result.allowed = expectation.allowed

\* the ceiling of count under the configured algorithm
Ceiling ==
    IF algorithm = "token_bucket" THEN rlConfig.burstLimit ELSE rlConfig.requestsPerMinute

\* C7: the count of every entry lies between 0 and the ceiling of the
\* configured algorithm.
CountWithinCeiling ==
    \A key \in DOMAIN entries : entries[key].count >= 0 /\ entries[key].count <= Ceiling

\* a key that reached a ceiling of more than one call has just been denied
CountAtCeiling ==
    /\ rlLast.op # "none" /\ ~rlLast.result.allowed
    /\ algorithm # "token_bucket"
    /\ rlLast.key \in DOMAIN entries
    /\ entries[rlLast.key].count = Ceiling
    /\ Ceiling > 1

\* C8: every denial has retryAfter > 0, and the RateLimitError consume raises
\* for it carries the same retryAfter.
DenialRetryAfter ==
    (rlLast.op # "none" /\ ~rlLast.result.allowed) =>
        /\ rlLast.result.hasRetryAfter
        /\ rlLast.result.retryAfter > 0
        /\ rlLast.raised => rlLast.raisedRetryAfter = rlLast.result.retryAfter

\* C9: the first call of a key once windowSizeMs has passed since the start
\* of a window in which the key was denied is allowed.
AllowedAfterWindow ==
    (WindowAlgorithm /\ rlLast.op # "none" /\ expectation.afterDenial)
        => rlLast.result.allowed

(***************************************************************************)
(* Specification SpecRetry: one call of ErrorUtils.retry; the operation    *)
(* succeeds or raises any error at each invocation.                        *)
(***************************************************************************)
RetryInit ==
    /\ fs = BaseFs
    /\ SafetyIdle
    /\ SecureIdle
    /\ PipelineIdle
    /\ RateIdle
    /\ RegistryIdle
    /\ CliIdle
    /\ SendIdle
    /\ retryConfig \in RetryConfigs
    /\ attempt = 1
    /\ retryPc = "loop"
    /\ lastError = Undefined
    /\ thrown = Undefined
    /\ trace = <<>>

Event(type, error, n, ms) == [type |-> type, error |-> error, attempt |-> n, ms |-> ms]

IsCall(event) == event.type = "call"

\* the invocations of the operation so far
Calls == SelectSeq(trace, IsCall)

\* one pass through the loop body: the operation is invoked; on an error the
\* catch block runs up to the break or to the call of this.delay
Invoke ==
    /\ retryPc = "loop" /\ attempt <= retryConfig.maxAttempts
    /\ \E outcome \in {Success} \cup Errors(Len(Calls) + 1) :
          LET called == Append(trace, Event("call", outcome, attempt, 0))
          IN IF outcome = Success
               THEN /\ retryPc' = "returned"
                    /\ trace' = called
                    /\ UNCHANGED lastError
             ELSE /\ lastError' = outcome
                  /\ IF attempt = retryConfig.maxAttempts
                        \/ ~IsRetryableError(outcome, retryConfig.retryableErrors)
                       THEN /\ retryPc' = "exit"
                            /\ trace' = called
                     ELSE /\ retryPc' = "delay"
                          /\ trace' = IF retryConfig.onRetry
                                        THEN Append(called,
                                                    Event("onRetry", outcome, attempt, 0))
                                      ELSE called
    /\ UNCHANGED <<sendVars, cliVars, fs, safetyVars, secureVars, pipelineVars, rateVars,
                   registryVars,
                   retryConfig, attempt, thrown>>

\* await this.delay(delayMs) returns and the loop variable is incremented
Delay ==
    /\ retryPc = "delay"
    /\ trace' = Append(trace, Event("sleep", lastError, attempt,
                                    DelayMs(retryConfig, attempt, lastError)))
    /\ attempt' = attempt + 1
    /\ retryPc' = "loop"
    /\ UNCHANGED <<sendVars, cliVars, fs, safetyVars, secureVars, pipelineVars, rateVars,
                   registryVars,
                   retryConfig, lastError, thrown>>

\* throw lastError!, after a break or when the loop condition fails
ThrowLast ==
    /\ \/ retryPc = "exit"
       \/ retryPc = "loop" /\ attempt > retryConfig.maxAttempts
    /\ thrown' = lastError
    /\ retryPc' = "thrown"
    /\ UNCHANGED <<sendVars, cliVars, fs, safetyVars, secureVars, pipelineVars, rateVars,
                   registryVars,
                   retryConfig, attempt, lastError, trace>>

RetryNext ==
    \/ Invoke
    \/ Delay
    \/ ThrowLast

SpecRetry == RetryInit /\ [][RetryNext]_vars

IsCallOrSleep(event) == event.type \in {"call", "sleep"}

AllNetwork == \A i \in 1..Len(Calls) : Calls[i].error.class = "NetworkError"

\* C10: when every attempt fails with a Network error, retry invokes the
\* operation exactly maxAttempts times, sleeps once before each re-attempt and
\* then throws the error of the last attempt; the operation is never invoked
\* more than maxAttempts times and never again after a success.
NetworkRetried ==
    /\ Len(Calls) <= retryConfig.maxAttempts
    /\ \A i \in 1..Len(trace) :
          (trace[i].type = "call" /\ trace[i].error = Success)
              => (i = Len(trace) /\ retryPc = "returned")
    /\ (retryPc = "thrown" /\ AllNetwork) =>
          LET steps == SelectSeq(trace, IsCallOrSleep)
          IN /\ Len(Calls) = retryConfig.maxAttempts
             /\ Len(steps) = Max(2 * retryConfig.maxAttempts - 1, 0)
             /\ \A i \in 1..Len(steps) :
                   steps[i].type = IF i % 2 = 1 THEN "call" ELSE "sleep"
             /\ Len(Calls) > 0 => thrown = Calls[Len(Calls)].error

\* several attempts all failed with a Network error and the last was thrown
NetworkExhausted ==
    /\ retryPc = "thrown"
    /\ retryConfig.maxAttempts >= 2
    /\ Len(Calls) >= 2
    /\ AllNetwork
    /\ thrown.class = "NetworkError"

\* the kinds of the error classes that are never retried: Validation, and every
\* kind that is neither Network, RateLimit nor a transient Api error
NotRetryableBaseKind(error) ==
    \/ error.class \in {"ValidationError", "SecurityError", "FileSystemError",
                        "ConfigurationError", "ToolExecutionError"}
    \/ error.class = "ApiError" /\ error.statusCode < 500 /\ error.statusCode # 429

\* the kinds the retry executor must not retry, as the claim has them: the
\* kinds above and every error outside the error classes, the AbortError of a
\* cancellation among them
NotRetryableKind(error) ==
    NotRetryableBaseKind(error) \/ error.class \in {"Error", "AbortError"}

\* the invocation at trace[i] is the last thing retry did: no onRetry callback,
\* no delay and no further invocation follow it, and its error is the one thrown
SurfacedAt(i) ==
    /\ i = Len(trace)
    /\ retryPc \in {"exit", "thrown"}
    /\ lastError = trace[i].error
    /\ retryPc = "thrown" => thrown = trace[i].error

\* C11 as stated: an invocation that fails with an error that is not retryable
\* (a Validation-kind error, or any error outside the retryable kinds such as
\* an AbortError) is the last thing retry does, whatever the configuration.
NotRetryableSurfaced ==
    \A i \in 1..Len(trace) :
        (trace[i].type = "call" /\ NotRetryableKind(trace[i].error)) => SurfacedAt(i)

\* the constructors the configuration lists as retryable
ListedClasses(config) ==
    IF config.retryableErrors.defined
      THEN { config.retryableErrors.classes[i] : i \in DOMAIN config.retryableErrors.classes }
    ELSE {}

\* an error outside the error classes that no listed constructor covers
Unlisted(config, error) ==
    \/ error.class = "Error" /\ "Error" \notin ListedClasses(config)
    \/ error.class = "AbortError"
          /\ ListedClasses(config) \cap {"DOMException", "Error"} = {}

\* C11, amended: an invocation that fails with an error of a kind that is never
\* retried, or with an error outside the error classes that is an instance of
\* no constructor listed in retryableErrors (under the default list: every
\* such error, AbortError included), is the last thing retry does: no onRetry
\* callback, no delay and no further invocation follow it, and that error is
\* the one thrown.
UnlistedErrorSurfaced ==
    \A i \in 1..Len(trace) :
        (/\ trace[i].type = "call"
         /\ \/ NotRetryableBaseKind(trace[i].error)
            \/ Unlisted(retryConfig, trace[i].error)) => SurfacedAt(i)

\* under the default list, with attempts left and a callback set, the first
\* invocation raised an AbortError and it was thrown at once
AbortSurfaced ==
    /\ retryPc = "thrown"
    /\ retryConfig.retryableErrors = RetryableErrors
    /\ retryConfig.maxAttempts >= 2 /\ retryConfig.onRetry
    /\ Len(trace) = 1
    /\ thrown.class = "AbortError"

\* the default retryability of the error kinds: Network yes, Api exactly for a
\* 5xx or 429 status, every other kind no
DefaultRetryability(error) ==
    \/ error.class = "NetworkError"
    \/ error.class = "ApiError" /\ (error.statusCode >= 500 \/ error.statusCode = 429)

\* C12: isRetryable of every error kind equals the default classification
\* (Validation, Security, RateLimit, FileSystem, Configuration, Internal no;
\* Network yes; Api yes exactly for 5xx and 429), and retry goes on after a
\* failed attempt that is not the last exactly when the classification says so.
RetryabilityClassified ==
    /\ lastError.class \in BaseErrorClasses
          => IsRetryable(lastError) = DefaultRetryability(lastError)
    /\ \A i \in 1..Len(trace) :
          (/\ trace[i].type = "call"
           /\ trace[i].error.class \in BaseErrorClasses
           /\ trace[i].attempt < retryConfig.maxAttempts)
              => ((i < Len(trace) \/ retryPc = "delay")
                    <=> DefaultRetryability(trace[i].error))

(***************************************************************************)
(* Specification SpecRegistry: one ToolRegistry under any sequence of      *)
(* register, unregister, clear and createInvocation calls.                 *)
(***************************************************************************)
RegistryCalls == { call \in ToolCalls : call.parameters.path.s \in {NameF, Dot} }

RegistryInit ==
    /\ fs = BaseFs
    /\ SafetyIdle
    /\ SecureIdle
    /\ PipelineIdle
    /\ RateIdle
    /\ RetryIdle
    /\ CliIdle
    /\ SendIdle
    /\ tools = <<>>
    /\ regLast = NoRegistryCall

\* a caller calls register(tool)
Register(tool) ==
    /\ LET registered == RegistryRegister(tools, tool)
       IN /\ tools' = registered.tools
          /\ regLast' = [op |-> "register", name |-> tool.name, tool |-> tool,
                         before |-> tools, ok |-> registered.ok,
                         error |-> registered.error, invocation |-> NoInvocation]
    /\ UNCHANGED <<sendVars, cliVars, fs, safetyVars, secureVars, pipelineVars, rateVars,
                   retryVars>>

\* a caller calls unregister(name)
Unregister(name) ==
    /\ tools' = MapDelete(tools, name)
    /\ regLast' = [op |-> "unregister", name |-> name, tool |-> NoInvocation.tool,
                   before |-> tools, ok |-> TRUE, error |-> NoError,
                   invocation |-> NoInvocation]
    /\ UNCHANGED <<sendVars, cliVars, fs, safetyVars, secureVars, pipelineVars, rateVars,
                   retryVars>>

\* a caller calls clear()
Clear ==
    /\ tools' = <<>>
    /\ regLast' = [op |-> "clear", name |-> "", tool |-> NoInvocation.tool,
                   before |-> tools, ok |-> TRUE, error |-> NoError,
                   invocation |-> NoInvocation]
    /\ UNCHANGED <<sendVars, cliVars, fs, safetyVars, secureVars, pipelineVars, rateVars,
                   retryVars>>

\* a caller calls createInvocation(toolCall)
RegistryCreate(call) ==
    /\ LET created == RegistryCreateInvocation(tools, call)
       IN regLast' = [op |-> "createInvocation", name |-> call.name,
                      tool |-> NoInvocation.tool, before |-> tools, ok |-> created.ok,
                      error |-> created.error, invocation |-> created.invocation]
    /\ UNCHANGED <<sendVars, cliVars, fs, safetyVars, secureVars, pipelineVars, rateVars,
                   retryVars, tools>>

RegistryNext ==
    \/ \E tool \in ToolObjects : Register(tool)
    \/ \E name \in RegisteredTools : Unregister(name)
    \/ Clear
    \/ \E call \in RegistryCalls : RegistryCreate(call)

SpecRegistry == RegistryInit /\ [][RegistryNext]_vars

\* the names a registry holds
NamesOf(ts) == { ts[i].name : i \in 1..Len(ts) }

\* C13: register for a name already registered fails with a Configuration
\* error and leaves the registry unchanged, the name still mapped to the tool
\* registered first; at all times a name maps to at most one tool.
DuplicateRejected ==
    /\ \A i, j \in 1..Len(tools) : tools[i].name = tools[j].name => i = j
    /\ (regLast.op = "register" /\ regLast.name \in NamesOf(regLast.before)) =>
          /\ ~regLast.ok
          /\ regLast.error.class = "ConfigurationError"
          /\ tools = regLast.before

\* A field of a call's parameters breaks the tool's schema: a required string is not
\* a string, or the optional create_dirs flag is given but not a boolean.
BreaksSchema(call, field) ==
    LET t == call.parameters[field].t
    IN \/ field = "path" /\ t # "string"
       \/ call.name = "write_file" /\ field = "content" /\ t # "string"
       \/ call.name = "write_file" /\ field = "create_dirs" /\ t \notin {"boolean", "undefined"}

SchemaFields == {"path", "content", "create_dirs"}

\* C32: createInvocation for a registered tool returns an invocation only when the
\* call's parameters satisfy the tool's schema; on a mismatch it fails with a
\* validation error whose issues name exactly the offending fields, each with the
\* constraint it breaks, and no invocation is created.
SchemaMismatchRefused ==
    [][\A call \in RegistryCalls :
         (RegistryCreate(call) /\ HasTool(tools, call.name)) =>
            LET offending == { field \in SchemaFields : BreaksSchema(call, field) }
                issues == regLast'.error.issues
            IN /\ regLast'.invocation.created <=> offending = {}
               /\ regLast'.ok <=> offending = {}
               /\ offending # {} =>
                     /\ regLast'.error.class = "ToolError"
                     /\ regLast'.error.type = "validation_error"
                     /\ { issues[i].path : i \in 1..Len(issues) } = offending
                     /\ \A i \in 1..Len(issues) :
                           /\ issues[i].received = call.parameters[issues[i].path].t
                           /\ issues[i].expected # issues[i].received
                     /\ tools' = tools]_vars

\* A write_file call without content was refused with a validation error naming content,
\* and a later call with a complete schema produced an invocation.
MissingContentRefused ==
    /\ regLast.op = "createInvocation"
    /\ regLast.name = "write_file"
    /\ ~regLast.ok
    /\ regLast.error.type = "validation_error"
    /\ Len(regLast.error.issues) = 1
    /\ regLast.error.issues[1] =
          [path |-> "content", expected |-> "string", received |-> "undefined"]
    /\ ~regLast.invocation.created

\* C14: createInvocation for a name that is not registered fails with a
\* NotFound error whose details list exactly the names registered at that
\* moment, and creates no invocation.
UnknownToolNotFound ==
    (regLast.op = "createInvocation" /\ regLast.name \notin NamesOf(regLast.before)) =>
        /\ ~regLast.ok
        /\ regLast.error.class = "ToolError"
        /\ regLast.error.type = "not_found_error"
        /\ Len(regLast.error.availableTools) = Cardinality(NamesOf(tools))
        /\ { regLast.error.availableTools[i] :
               i \in 1..Len(regLast.error.availableTools) } = NamesOf(tools)
        /\ ~regLast.invocation.created
        /\ tools = regLast.before

\* a tool that was registered and then unregistered is looked up while
\* others are registered
UnknownAfterUnregister ==
    /\ regLast.op = "createInvocation"
    /\ regLast.name \in RegisteredTools
    /\ regLast.name \notin NamesOf(tools)
    /\ Len(tools) >= 2
    /\ ~regLast.ok

\* C15: the tool calls of one response are processed one at a time in the
\* order received: no step is taken for a call before every earlier call has
\* pushed its result, and the 'tool' messages are one per call, in call
\* order, each with the id of its call.
SequentialCalls ==
    /\ Len(conversation) = callIdx - 1
    /\ callIdx <= Len(toolCalls) + 1
    /\ \A i \in 1..Len(conversation) :
          conversation[i].role = "tool" /\ conversation[i].toolCallId = i
    /\ \A i \in 1..Len(stages) :
          /\ stages[i] # <<>> => Len(conversation) >= i - 1
          /\ Len(conversation) >= i => stages[i] # <<>>

\* a response of several calls was processed to the end, the last one executed
AllCallsProcessed ==
    /\ Len(toolCalls) >= 2
    /\ callIdx = Len(toolCalls) + 1
    /\ Len(conversation) = Len(toolCalls)
    /\ FirstIndex(stages[1], "confirm_request") > 0
    /\ FirstIndex(stages[Len(toolCalls)], "execute") > 0

\* C16: once the caller's abort signal has fired, no tool invocation of the
\* turn starts executing: neither the call in progress nor a later one.
AbortStopsExecution ==
    \A i \in 1..Len(stages) :
        FirstIndex(stages[i], "abort") > 0 =>
            /\ ~Precedes(stages[i], "abort", "execute")
            /\ \A j \in (i + 1)..Len(stages) : FirstIndex(stages[j], "execute") = 0


\* C17: a write_file call whose content is larger than maxRequestSize bytes is
\* refused before the filesystem is touched: the call never reaches the write
\* (the target file is neither created nor modified) and, while the call is the
\* current one, the filesystem is the one the call started with.
LargeWriteRefused ==
    \A i \in 1..Len(toolCalls) :
        OverLimit(toolCalls[i]) =>
            /\ FirstIndex(stages[i], "overwrite") = 0
            /\ FirstIndex(stages[i], "create") = 0
            /\ callIdx = i => fs = fsBefore


\* the path has a '..' segment and is relative
RelativeWithDotDot(p) ==
    ~IsAbsolute(p) /\ \E k \in 1..Len(Split(p)) : Split(p)[k] = DotDot

\* resolved against the working directory, the path names neither the root nor
\* anything below it
LeadsOutsideRoot(p) ==
    LET resolved == PathResolve(Cwd, p)
    IN resolved # RootDir /\ ~StartsWith(resolved, RootDir \o <<Sep>>)

\* the reason texts of the repository that contain "outside allowed root"
OutsideAllowedRootReasons == {"Path outside allowed root directory: "}

\* C18: a read_file call with a relative path whose '..' segments lead outside
\* the root is denied, and the denial reason reported to the caller contains
\* "outside allowed root", however many '..' segments the path has.
TraversalReadDenied ==
    \A i \in 1..Len(conversation) :
        LET call == toolCalls[conversation[i].toolCallId]
        IN (/\ call.name = "read_file"
            /\ RelativeWithDotDot(call.parameters.path.s)
            /\ LeadsOutsideRoot(call.parameters.path.s)) =>
               /\ FirstIndex(stages[i], "security_denied") > 0
               /\ FirstIndex(stages[i], "read") = 0
               /\ conversation[i].content.reason \in OutsideAllowedRootReasons


\* the filesystem paths in the text of a failure message (the texts that end
\* with a user's reason or with no argument name no path)
FailurePaths(content) ==
    IF content.prefix = "Tool execution failed: " /\ content.arg # <<>>
      THEN {content.arg}
    ELSE {}

\* the path a call supplies, and its directory part
SuppliedPaths(call) ==
    {call.parameters.path.s, PathDirname(call.parameters.path.s)}

\* C19: the failure text returned for a denied or failed tool call contains no
\* filesystem path other than the path the caller supplied in that call; it
\* never reveals the absolute root directory or a canonicalized path.
FailureTextKeepsPaths ==
    \A i \in 1..Len(conversation) :
        FailurePaths(conversation[i].content)
            \subseteq SuppliedPaths(toolCalls[conversation[i].toolCallId])


\* C20: with the shipped wiring (CoreManager using DefaultConfirmationHandler)
\* a write_file call that overwrites an existing file executes only after a
\* user has explicitly approved that request: the handler has put the request
\* before a user and the approval precedes the overwrite.
ShippedOverwriteApproved ==
    handler = "default" =>
        \A i \in 1..Len(stages) :
            FirstIndex(stages[i], "overwrite") > 0 =>
                /\ PromptsUser(handler)
                /\ Precedes(stages[i], "approved", "overwrite")


TokenBucket == rlConfig.enabled /\ algorithm = "token_bucket"

\* C21: under token bucket, for a key that has no entry yet, calls made with
\* no time passing between them are admitted exactly burstLimit times and the
\* next call is denied: of the first n such calls, min(n, burstLimit) are
\* admitted.
BurstAdmitted ==
    TokenBucket =>
        \A key \in DOMAIN buckets :
            buckets[key].admitted = Min(buckets[key].calls, rlConfig.burstLimit)

\* a burst of more than one call was admitted and the next call was denied
BurstExhausted ==
    /\ TokenBucket /\ rlConfig.burstLimit > 1
    /\ rlLast.op # "none" /\ ~rlLast.result.allowed
    /\ rlLast.key \in DOMAIN buckets
    /\ buckets[rlLast.key].at = now
    /\ buckets[rlLast.key].calls = rlConfig.burstLimit + 1
    /\ buckets[rlLast.key].admitted = rlConfig.burstLimit


\* the entry's lastRequest is older than windowSizeMs at time t
OlderThanWindow(config, entry, t) == t - entry.lastRequest > config.windowSizeMs

\* what a run of the sweep leaves and removes
SweepEffect ==
    /\ \A key \in DOMAIN entries' :
          /\ key \in DOMAIN entries /\ entries'[key] = entries[key]
          /\ ~OlderThanWindow(rlConfig, entries'[key], now)
    /\ \A key \in DOMAIN entries \ DOMAIN entries' :
          OlderThanWindow(rlConfig, entries[key], now)

\* C22: after every run of the sweep no remaining entry has lastRequest older
\* than windowSizeMs, and every entry the sweep removed had lastRequest older
\* than windowSizeMs: an entry used within the last window is never removed.
SweepRemovesOld == [][(CleanupSweep \/ CleanupCall) => SweepEffect]_vars

\* the sweep has removed the entry of one key and kept the entry of another
SweptAndKept ==
    /\ rlConfig.enabled
    /\ \E removed \in DOMAIN windows : removed \notin DOMAIN entries
    /\ \E kept \in DOMAIN entries : ~OlderThanWindow(rlConfig, entries[kept], now)


(***************************************************************************)
(* Specification SpecCli: the main loop of OpenCLI, its SIGINT and line     *)
(* handlers, the reset timers the SIGINT handler starts, and the clock.    *)
(* readline hands a line entered while a question is pending to the        *)
(* callback of rl.question and emits no 'line' event for it; a line        *)
(* entered while no question is pending is emitted as a 'line' event.      *)
(* The callback resolves the promise of askQuestion and mainLoop goes on   *)
(* in a microtask: readline handles the rest of the chunk of input that    *)
(* held the line before it, and no timer runs in between.                  *)
(***************************************************************************)
\* setTimeout(() => { this.ctrlCCount = 0; }, 2000)
ResetDelayMs == 2000

CliInit ==
    /\ fs = BaseFs
    /\ SafetyIdle
    /\ SecureIdle
    /\ PipelineIdle
    /\ RateIdle
    /\ RetryIdle
    /\ RegistryIdle
    /\ CliIdle
    /\ SendIdle

\* the count a second press is compared against
QuitCount == 2

\* rl.on('SIGINT'): Ctrl-C is pressed
Sigint ==
    /\ ~exited
    /\ ctrlCCount + 1 >= QuitCount \/ Len(timers) < MaxTimers
    /\ ctrlCCount' = ctrlCCount + 1
    /\ IF ctrlCCount + 1 >= QuitCount
         THEN exited' = TRUE /\ timers' = timers
       ELSE exited' = exited /\ timers' = Append(timers, clock + ResetDelayMs)
    /\ cliLast' = [kind |-> "sigint", pressedAt |-> clock,
                   previousPress |-> cliLast.pressedAt]
    /\ UNCHANGED <<sendVars, fs, safetyVars, secureVars, pipelineVars, rateVars, retryVars,
                   registryVars, clock, mainPc, answer>>

\* the lines a user enters: a blank one, one without a model mention, one that
\* mentions a model that is not available, a message to an available model
InputKinds == {"blank", "no_mention", "not_available", "message"}

\* askQuestion: the line entered at the prompt is handed to the callback of
\* rl.question, which resolves the promise mainLoop awaits
AskQuestion(input) ==
    /\ ~exited
    /\ mainPc = "askQuestion"
    /\ mainPc' = "answered"
    /\ answer' = input
    /\ cliLast' = [kind |-> "line", pressedAt |-> -1, previousPress |-> -1]
    /\ UNCHANGED <<sendVars, fs, safetyVars, secureVars, pipelineVars, rateVars, retryVars,
                   registryVars, ctrlCCount, timers, clock, exited>>

\* mainLoop goes on after await this.askQuestion.  A blank line continues the
\* loop, processInput returns at once for a line without a mention of an
\* available model, and the next question is asked; for a message processInput
\* awaits coreManager.sendMessage
MainLoop ==
    /\ ~exited
    /\ mainPc = "answered"
    /\ mainPc' = IF answer = "message" THEN "processInput" ELSE "askQuestion"
    /\ answer' = "none"
    /\ UNCHANGED <<sendVars, fs, safetyVars, secureVars, pipelineVars, rateVars, retryVars,
                   registryVars, ctrlCCount, timers, clock, exited, cliLast>>

\* rl.on('line'): an input line is entered while no question is pending
Line ==
    /\ ~exited
    /\ mainPc # "askQuestion"
    /\ ctrlCCount' = 0
    /\ cliLast' = [kind |-> "line", pressedAt |-> -1, previousPress |-> -1]
    /\ UNCHANGED <<sendVars, fs, safetyVars, secureVars, pipelineVars, rateVars, retryVars,
                   registryVars, timers, clock, exited, mainPc, answer>>

\* processInput: coreManager.sendMessage has settled, its response or its
\* error is printed and mainLoop asks the next question
ProcessInput ==
    /\ ~exited
    /\ mainPc = "processInput"
    /\ mainPc' = "askQuestion"
    /\ UNCHANGED <<sendVars, fs, safetyVars, secureVars, pipelineVars, rateVars, retryVars,
                   registryVars, ctrlCCount, timers, clock, exited, answer, cliLast>>

\* the oldest reset timer is due and its callback runs; timers run after the
\* microtask that continues mainLoop
TimerFires ==
    /\ ~exited
    /\ mainPc # "answered"
    /\ Len(timers) > 0 /\ Head(timers) <= clock
    /\ ctrlCCount' = 0
    /\ timers' = Tail(timers)
    /\ cliLast' = [cliLast EXCEPT !.kind = "timer"]
    /\ UNCHANGED <<sendVars, fs, safetyVars, secureVars, pipelineVars, rateVars, retryVars,
                   registryVars, clock, exited, mainPc, answer>>

\* time passes; a timer that is due runs before time passes again, and so does
\* the microtask that continues mainLoop
TickClock ==
    /\ ~exited
    /\ mainPc # "answered"
    /\ clock + TickMs <= MaxTicks * TickMs
    /\ \A i \in 1..Len(timers) : timers[i] > clock
    /\ clock' = clock + TickMs
    /\ UNCHANGED <<sendVars, fs, safetyVars, secureVars, pipelineVars, rateVars, retryVars,
                   registryVars, ctrlCCount, timers, exited, mainPc, answer, cliLast>>

CliNext ==
    \/ Sigint
    \/ \E input \in InputKinds : AskQuestion(input)
    \/ MainLoop
    \/ Line
    \/ ProcessInput
    \/ TimerFires
    \/ TickClock

SpecCli == CliInit /\ [][CliNext]_vars

\* the last event is the second of two presses in succession, less than two
\* seconds after the first
SecondPress ==
    /\ cliLast.kind = "sigint"
    /\ cliLast.previousPress >= 0
    /\ cliLast.pressedAt - cliLast.previousPress < ResetDelayMs

\* a press that no other press precedes since the last line never quits
SinglePressStays ==
    exited => cliLast.kind = "sigint" /\ cliLast.previousPress >= 0

\* C23: two Ctrl-C presses in succession (no input line between them, the
\* second less than 2 seconds after the first) always quit the program,
\* whatever presses, lines and pending reset timers preceded them; a single
\* press never quits.
CtrlCTwiceQuits ==
    /\ SecondPress => exited
    /\ SinglePressStays


\* C24: under token bucket, a key whose bucket is empty is admitted again by
\* the first call that arrives at least ceil(windowSizeMs / requestsPerMinute)
\* ms after the bucket emptied, however many denied calls the key made in
\* between: denied calls do not postpone the refill.
RefillNotPostponed ==
    (/\ TokenBucket
     /\ rlLast.op # "none"
     /\ rlLast.key \in DOMAIN buckets
     /\ buckets[rlLast.key].due) => rlLast.result.allowed


FixedWindow == rlConfig.enabled /\ algorithm = "fixed_window"

\* C25: under fixed window every entry's windowStart is a multiple of
\* windowSizeMs, and for each key at most requestsPerMinute calls are admitted
\* inside any one aligned window [k*windowSizeMs, (k+1)*windowSizeMs), while
\* up to 2*requestsPerMinute may be admitted across a boundary.
AlignedWindowQuota ==
    FixedWindow =>
        /\ \A key \in DOMAIN entries :
              entries[key].windowStart % rlConfig.windowSizeMs = 0
        /\ \A key \in DOMAIN windows :
              /\ windows[key].start % rlConfig.windowSizeMs = 0
              /\ windows[key].admitted <= rlConfig.requestsPerMinute
              /\ windows[key].admitted + windows[key].previous
                    <= 2 * rlConfig.requestsPerMinute

\* a key was admitted requestsPerMinute times on each side of a boundary, the
\* last time less than windowSizeMs after the first
BoundaryBurst ==
    /\ FixedWindow
    /\ \E key \in DOMAIN windows :
          /\ windows[key].start > 0
          /\ windows[key].previous = rlConfig.requestsPerMinute
          /\ windows[key].admitted = rlConfig.requestsPerMinute
          /\ now = windows[key].start
          /\ rlLast.key = key /\ rlLast.result.allowed


\* the checks of validateFilePath in the order of the claim, and their reasons
\* the call has returned its result
HasReturned(c) == ssCalls[c].pc = "returned"

\* the call returns in this step
Returns(c) ==
    /\ ssCalls'[c].pc = "returned"
    /\ c \in DOMAIN ssCalls => ssCalls[c].pc # "returned"

CheckOrder == <<"malicious", "containment", "blocked", "extension", "size">>

CheckReason(check) ==
    IF check = "malicious" THEN "Path contains malicious patterns"
    ELSE IF check = "containment" THEN "Path outside allowed root directory: "
    ELSE IF check = "blocked" THEN "Path is explicitly blocked: "
    ELSE IF check = "extension" THEN "File extension not allowed: "
    ELSE "File size exceeds maximum"

\* the bytes of the file or directory at a location: the length of a file's
\* content, the block of a directory
BytesAt(f, location) ==
    IF f[location].kind = "file" THEN Len(f[location].content) ELSE DirectorySize

\* the checks a request fails, each taken on its own; the checks after the
\* malicious pattern are relative to the root and are made of a root that exists
FailingChecks(config, f, cwd, request) ==
    LET normalizedPath == PathNormalize(request.path)
        canonicalPath == CanonicalPath(f, cwd, normalizedPath)
        rootReal == Realpath(f, cwd, PathResolve(cwd, RootOf(cwd, request)))
        canonicalRoot == rootReal.path
    IN { check \in {"malicious"} : ContainsMaliciousPatterns(normalizedPath) }
       \cup { check \in {"containment"} :
                /\ rootReal.ok
                /\ config.enablePathTraversalProtection
                /\ ~IsWithinRoot(canonicalPath, canonicalRoot) }
       \cup { check \in {"blocked"} :
                /\ rootReal.ok
                /\ IsPathBlocked(config, PathRelative(canonicalRoot, canonicalPath)) }
       \cup { check \in {"extension"} :
                rootReal.ok /\ ~ExtensionAllowed(config, canonicalPath) }
       \cup { check \in {"size"} :
                /\ rootReal.ok
                /\ request.operation \in {"read", "stat"}
                /\ config.maxFileSize # 0
                /\ ResolvedLocation(f, cwd, canonicalPath) \in DOMAIN f
                /\ BytesAt(f, ResolvedLocation(f, cwd, canonicalPath)) > config.maxFileSize }

\* the first check of the order among the failing ones ("none": no check fails)
FirstFailing(failing) ==
    IF failing = {} THEN "none"
    ELSE CheckOrder[CHOOSE i \in 1..Len(CheckOrder) :
                      /\ CheckOrder[i] \in failing
                      /\ \A j \in 1..(i - 1) : CheckOrder[j] \notin failing]

\* C26: validateFilePath evaluates its checks in the order malicious pattern,
\* containment, blocked path, extension, size; the reason it returns is that of
\* the first check in this order that fails, and allowed:true is returned only
\* when none of them fails.
ChecksInOrder ==
    \A c \in DOMAIN ssCalls :
        HasReturned(c) =>
            \A first \in {FirstFailing(FailingChecks(ssConfig, fs, Cwd,
                                                     ssCalls[c].request))} :
                /\ ssCalls[c].result.allowed => first = "none"
                /\ first # "none" =>
                      /\ ~ssCalls[c].result.allowed
                      /\ ssCalls[c].result.reason.msg = CheckReason(first)

\* a request that fails containment and a later check was denied for containment
LaterCheckShadowed ==
    \E c \in DOMAIN ssCalls :
        /\ HasReturned(c)
        /\ \E failing \in {FailingChecks(ssConfig, fs, Cwd, ssCalls[c].request)} :
              /\ Cardinality(failing) >= 2
              /\ FirstFailing(failing) = "containment"
        /\ ssCalls[c].result.reason.msg = CheckReason("containment")


\* the characters of the model that are control characters
ControlChars == {NUL, SOH, "\t", "\n"}

HasControlChar(p) == \E i \in 1..Len(p) : p[i] \in ControlChars

\* C27: a requested path that contains a null byte or any other control
\* character is rejected as a malicious pattern, before any filesystem
\* resolution is attempted (no canonical path is computed), whatever the rest
\* of the path is.
ControlCharsRejected ==
    \A c \in DOMAIN ssCalls :
        (HasReturned(c) /\ HasControlChar(ssCalls[c].request.path)) =>
            /\ ~ssCalls[c].result.allowed
            /\ ssCalls[c].result.reason.msg = CheckReason("malicious")
            /\ ssCalls[c].result.canonicalPath = <<>>

\* the part of it about the null byte
NullByteRejected ==
    \A c \in DOMAIN ssCalls :
        (HasReturned(c)
         /\ \E i \in 1..Len(ssCalls[c].request.path) : ssCalls[c].request.path[i] = NUL) =>
            /\ ~ssCalls[c].result.allowed
            /\ ssCalls[c].result.reason.msg = CheckReason("malicious")
            /\ ssCalls[c].result.canonicalPath = <<>>


\* the location of the request relative to the root starts with a configured
\* blocked path
LocationBlocked(config, f, cwd, request, root) ==
    LET location == ResolvedLocation(f, cwd, request.path)
        relative == PathRelative(root, location)
    IN /\ WithinRoot(location, root)
       /\ \E blockedPath \in config.blockedPaths : StartsWith(relative, blockedPath)

\* C28: validateFilePath never allows a path whose location relative to the
\* root starts with any configured blocked path; every such request that
\* passed the malicious-pattern and containment checks is denied with the
\* blocked-path reason.
BlockedNeverAllowed ==
    \A c \in DOMAIN ssCalls :
        (HasReturned(c)
         /\ LocationBlocked(ssConfig, fs, Cwd, ssCalls[c].request,
                            RootOf(Cwd, ssCalls[c].request))) =>
            /\ ~ssCalls[c].result.allowed
            /\ ssCalls[c].result.reason.msg
                  \notin {CheckReason("malicious"), CheckReason("containment")}
                  => ssCalls[c].result.reason.msg = CheckReason("blocked")


\* C29: the access log never holds more than maxAccessLogEntries (1000)
\* entries; when it is full, appending a new entry drops exactly the oldest
\* one and keeps the others in arrival order.
LogBounded ==
    /\ [](Len(accessLog) <= MaxAccessLogEntries)
    /\ [][\A c \in DOMAIN ssCalls' :
            (Returns(c) /\ Len(accessLog) = MaxAccessLogEntries) =>
                /\ Len(accessLog') = MaxAccessLogEntries
                /\ \A i \in 1..(MaxAccessLogEntries - 1) : accessLog'[i] = accessLog[i + 1]
                /\ accessLog'[MaxAccessLogEntries].requestedPath
                      = ssCalls'[c].request.path]_vars

\* a call has been logged in a full log: the log is still full, the entry of
\* the call is the newest and the second oldest entry has become the oldest
LogWrapped ==
    /\ Len(ssCalls) = 1
    /\ HasReturned(1)
    /\ Len(accessLog) = MaxAccessLogEntries
    /\ accessLog[MaxAccessLogEntries].requestedPath = ssCalls[1].request.path
    /\ accessLog[MaxAccessLogEntries - 1].requestedPath = PastRequests[3].path
    /\ accessLog[1].requestedPath # accessLog[MaxAccessLogEntries - 1].requestedPath

\* C30: every call of validateFilePath, allowed, denied by any check or failed
\* with an internal error, appends exactly one entry to the access log, and
\* that entry's allowed flag and reason equal those of the returned result.
EveryCallLogged ==
    [][\A c \in DOMAIN ssCalls' :
          Returns(c) =>
              IF accessLog' = <<>> THEN FALSE
              ELSE /\ Last(accessLog').allowed = ssCalls'[c].result.allowed
                   /\ Last(accessLog').reason = ssCalls'[c].result.reason
                   /\ Last(accessLog').requestedPath = ssCalls'[c].request.path
                   /\ ButLast(accessLog') = IF Len(accessLog) < MaxAccessLogEntries
                                              THEN accessLog
                                            ELSE Tail(accessLog)]_vars

\* a call that failed with an internal error is in the log
InternalErrorLogged ==
    \E c \in DOMAIN ssCalls :
        /\ HasReturned(c)
        /\ ssCalls[c].result.reason.msg = "Validation error: Failed to check file size"
        /\ accessLog # <<>>
        /\ Last(accessLog).reason = ssCalls[c].result.reason /\ ~Last(accessLog).allowed


IsSleep(event) == event.type = "sleep"

\* the sleeps of the call so far
Sleeps == SelectSeq(trace, IsSleep)

\* min(baseDelayMs * backoffMultiplier^(k-1), maxDelayMs)
BackoffDelay(config, k) ==
    LET m == config.backoffMultiplier
        grown == (config.baseDelayMs * Pow(m.num, k - 1)) \div Pow(m.den, k - 1)
    IN IF grown < config.maxDelayMs THEN grown ELSE config.maxDelayMs

\* the k-th sleep is the delay of the formula, raised to retryAfter after a
\* RateLimit error and never above maxDelayMs otherwise
DelayOfFormula(k) ==
    LET sleep == Sleeps[k]
        backoff == BackoffDelay(retryConfig, k)
    IN /\ sleep.attempt = k
       /\ IF sleep.error.class = "RateLimitError"
            THEN /\ sleep.ms >= sleep.error.retryAfter * MsPerSecond
                 /\ sleep.ms >= backoff
                 /\ sleep.ms \in {backoff, sleep.error.retryAfter * MsPerSecond}
          ELSE /\ sleep.ms = backoff
               /\ sleep.ms <= retryConfig.maxDelayMs

\* no earlier delay that was not raised is longer than the k-th one
NotDecreasedAt(k) ==
    Sleeps[k].error.class # "RateLimitError" =>
        \A j \in 1..(k - 1) :
            Sleeps[j].error.class # "RateLimitError" => Sleeps[j].ms <= Sleeps[k].ms

GrowingBackoff(config) ==
    /\ config.backoffMultiplier.num >= config.backoffMultiplier.den
    /\ config.baseDelayMs >= 0

TargetExists(f, call) ==
    FsAccess(f, Cwd, PathResolve(Cwd, call.parameters.path.s))

\* C33: the confirmation handler is consulted only for a write_file call whose
\* target file exists; a read_file or list_directory call, and a write_file call
\* whose target does not exist, go from shouldConfirmExecute straight to execution.
ConfirmationOnlyForOverwrite ==
    [][LET overwrites == CurrentCall.name = "write_file" /\ TargetExists(fs, CurrentCall)
       IN /\ RequestConfirmation => overwrites
          /\ (ShouldConfirmExecute /\ ~overwrites) => pc' = "execute"]_vars

\* the entries of the limiter with those of every key but one forgotten
OwnEntry(es, key) == [k \in DOMAIN es \cap {key} |-> es[k]]

\* the result of the configured algorithm for a key that sees only its own entry
OwnResult(config, alg, es, key, t) ==
    IF ~config.enabled
      THEN Allowed(config.requestsPerMinute, t + config.windowSizeMs)
    ELSE IF alg = "token_bucket"
      THEN CheckTokenBucket(config, OwnEntry(es, key), key, t).result
    ELSE IF alg = "sliding_window"
      THEN CheckSlidingWindow(config, OwnEntry(es, key), key, t).result
    ELSE CheckFixedWindow(config, OwnEntry(es, key), key, t).result

\* C34: a checkLimit or consume call for one key leaves the entry of every other
\* key as it was (present or absent), and its result is the one the algorithm
\* gives from that key's own entry alone, whatever calls were made for other keys.
OtherKeysUntouched ==
    [][\A key \in Keys :
         (CheckLimitCall(key) \/ ConsumeCall(key)) =>
            /\ \A other \in Keys \ {key} :
                  /\ other \in DOMAIN entries' <=> other \in DOMAIN entries
                  /\ other \in DOMAIN entries => entries'[other] = entries[other]
            /\ rlLast'.result = OwnResult(rlConfig, algorithm, entries, key, now)]_vars

\* a call for one key was denied while the other key, called earlier, holds an
\* entry of its own
DeniedBesideOtherKey ==
    /\ rlConfig.enabled
    /\ DOMAIN entries = Keys
    /\ rlLast.op \in {"checkLimit", "consume"}
    /\ ~rlLast.result.allowed
    /\ \E other \in Keys \ {rlLast.key} :
          /\ entries[other] # entries[rlLast.key]
          /\ other \in DOMAIN windows

\* C35: sweeps never change a decision: every checkLimit or consume call gets the
\* decision that the same call gets from a limiter with the same configuration
\* that took the same calls at the same times and was never swept.
SweepsKeepDecisions ==
    [][\A key \in Keys :
         (CheckLimitCall(key) \/ ConsumeCall(key)) =>
            rlLast'.result.allowed =
                CheckLimit(rlConfig, algorithm, unswept, key, now).result.allowed]_vars

\* C36: getRemaining(key) is a pure query: it changes no entry and no statistics
\* counter of the limiter.
GetRemainingPure ==
    [][\A key \in Keys :
         GetRemainingCall(key) =>
            /\ entries' = entries
            /\ totalRequests' = totalRequests
            /\ blockedRequests' = blockedRequests]_vars

(***************************************************************************)
(* CoreManager.sendMessage: the loop that sends the conversation to the    *)
(* model and runs the tool calls of its responses.                         *)
(***************************************************************************)
\* const maxAttempts = 10
MaxToolIterations == 10

\* a loop that runs once more than maxAttempts allows
LoopContinuesInclusive(n) == n <= MaxToolIterations

\* while (attempts < maxAttempts)
LoopContinues(n) == n < MaxToolIterations

\* the parameters of a call that names a path only
PathOnly(path) ==
    [path |-> StringField(path), content |-> UndefinedField, create_dirs |-> UndefinedField]

\* response.toolCalls of the responses the model gives: none, a write_file that
\* creates a directory and a file in it, a write_file over an existing file, a
\* read_file, a list_directory, and an unknown tool followed by a read_file
ResponseToolCalls ==
    { <<>>,
      << [name |-> "write_file",
          parameters |-> WriteParams(JoinSegs(<<NameN, NameF>>), BooleanField(TRUE))] >>,
      << [name |-> "write_file", parameters |-> WriteParams(NameF, UndefinedField)] >>,
      << [name |-> "read_file", parameters |-> PathOnly(NameF)] >>,
      << [name |-> "list_directory", parameters |-> PathOnly(Dot)] >>,
      << [name |-> "delete_file", parameters |-> PathOnly(NameF)],
         [name |-> "read_file", parameters |-> PathOnly(NameF)] >> }

SendInit ==
    /\ fs = BaseFs
    /\ SafetyIdle
    /\ SecureIdle
    /\ PipelineIdle
    /\ RateIdle
    /\ RetryIdle
    /\ RegistryIdle
    /\ CliIdle
    /\ modelFound \in BOOLEAN
    /\ attempts = 0
    /\ sendPc = "start"
    /\ modelResponse = NoResponse
    /\ turn = NoMessages
    /\ modelCalls = 0
    /\ withTools = 0
    /\ sendOutcome = NoOutcome

sendFrame == <<cliVars, fs, safetyVars, secureVars, rateVars, retryVars, registryVars>>

\* the lookup of the model, the user message pushed, attempts = 0
SendStart ==
    /\ sendPc = "start"
    /\ IF ~modelFound
         THEN /\ sendPc' = "threw"
              /\ sendOutcome' = [kind |-> "error", response |-> 0,
                                 message |-> "Model not found"]
              /\ UNCHANGED turn
       ELSE /\ sendPc' = "loop"
            /\ turn' = [turn EXCEPT !.user = @ + 1]
            /\ UNCHANGED sendOutcome
    /\ attempts' = 0
    /\ UNCHANGED <<sendFrame, pipelineVars, modelFound, modelResponse, modelCalls, withTools>>

\* the loop condition holds: attempts++, then model.sendMessage is called and
\* awaited
CallModel ==
    /\ sendPc = "loop"
    /\ LoopContinues(attempts)
    /\ attempts' = attempts + 1
    /\ modelCalls' = modelCalls + 1
    /\ sendPc' = "model"
    /\ UNCHANGED <<sendFrame, pipelineVars, modelFound, modelResponse, turn, withTools,
                   sendOutcome>>

\* model.sendMessage resolves with a response that carries the tool calls
\* calls: the assistant message is pushed; executeToolCalls is called for a
\* response with tool calls, and a response without them is returned
ModelResponds(calls) ==
    /\ sendPc = "model"
    /\ modelResponse' = [id |-> modelCalls, toolCalls |-> Len(calls)]
    /\ turn' = [turn EXCEPT !.assistant = @ + 1]
    /\ IF Len(calls) > 0
         THEN /\ sendPc' = "tools"
              /\ withTools' = withTools + 1
              /\ toolCalls' = calls
              /\ callIdx' = 1
              /\ pc' = "create"
              /\ conversation' = <<>>
              /\ stages' = [i \in 1..Len(calls) |-> <<>>]
              /\ fsBefore' = fs
              /\ UNCHANGED sendOutcome
       ELSE /\ sendPc' = "returned"
            /\ sendOutcome' = [kind |-> "return", response |-> modelCalls, message |-> ""]
            /\ UNCHANGED <<withTools, toolCalls, callIdx, pc, conversation, stages, fsBefore>>
    /\ UNCHANGED <<sendFrame, handler, confirmation, locals, abortFired, modelFound, attempts,
                   modelCalls>>

\* model.sendMessage rejects: the error leaves sendMessage
ModelThrows ==
    /\ sendPc = "model"
    /\ sendPc' = "threw"
    /\ sendOutcome' = [kind |-> "error", response |-> 0, message |-> "model error"]
    /\ UNCHANGED <<sendFrame, pipelineVars, modelFound, attempts, modelResponse, turn,
                   modelCalls, withTools>>

\* executeToolCalls has processed the last tool call of the response, through
\* the steps of PipelineNext, and returns: the conversation has one 'tool'
\* message more for every tool call; continue
SendExecuteToolCalls ==
    /\ sendPc = "tools"
    /\ callIdx > Len(toolCalls)
    /\ turn' = [turn EXCEPT !.tool = @ + Len(conversation)]
    /\ sendPc' = "loop"
    /\ UNCHANGED <<sendFrame, pipelineVars, modelFound, attempts, modelResponse, modelCalls,
                   withTools, sendOutcome>>

\* the loop condition fails: throw new Error('Too many tool call iterations')
TooManyIterations ==
    /\ sendPc = "loop"
    /\ ~LoopContinues(attempts)
    /\ sendPc' = "threw"
    /\ sendOutcome' = [kind |-> "error", response |-> 0,
                       message |-> "Too many tool call iterations"]
    /\ UNCHANGED <<sendFrame, pipelineVars, modelFound, attempts, modelResponse, turn,
                   modelCalls, withTools>>

\* the code of sendMessage that runs without awaiting anything
SendRuns ==
    \/ SendStart
    \/ CallModel
    \/ TooManyIterations

\* the promise of model.sendMessage settles
ModelSettles ==
    \/ \E calls \in ResponseToolCalls : ModelResponds(calls)
    \/ ModelThrows

\* a step of executeToolCalls: the promise it awaits settles, or it returns
ToolRound ==
    \/ PipelineNext
    \/ SendExecuteToolCalls

SendNext ==
    \/ SendRuns
    \/ ModelSettles
    \/ ToolRound

\* code that awaits nothing runs on; nothing is assumed of the promises
SpecSend == SendInit /\ [][SendNext]_vars /\ WF_vars(SendRuns)

SendFinished == sendPc \in {"returned", "threw"}

\* sendMessage awaits model.sendMessage, or executeToolCalls and the promises
\* executeToolCalls awaits in turn
AwaitsPromise == sendPc \in {"model", "tools"}

\* every promise sendMessage and executeToolCalls await settles: the call does
\* not wait for one for ever without a step of ModelSettles or ToolRound
PromisesSettle == []<>(~AwaitsPromise) \/ []<><<AwaitsPromise>>_vars

\* what sendMessage returned is the first response without tool calls
ReturnedFirstPlain ==
    /\ sendOutcome.kind = "return"
    /\ modelResponse.toolCalls = 0
    /\ sendOutcome.response = modelCalls
    /\ withTools = modelCalls - 1

\* it failed with 'Too many tool call iterations' after the 10th response with
\* tool calls
FailedAfterTenth ==
    /\ sendOutcome.kind = "error"
    /\ sendOutcome.message = "Too many tool call iterations"
    /\ modelCalls = 10
    /\ withTools = 10

\* it failed with the error of the model lookup, before any model call, or
\* with the error model.sendMessage rejected with
FailedWithModelError ==
    /\ sendOutcome.kind = "error"
    /\ \/ sendOutcome.message = "Model not found" /\ modelCalls = 0
       \/ sendOutcome.message = "model error" /\ withTools = modelCalls - 1

\* C37 as stated: sendMessage always terminates: for one user message it calls
\* the model at most 10 times, returning the first response that has no tool
\* calls, or failing with 'Too many tool call iterations' after the 10th
\* response that still has tool calls.
SendEndsInTwoWays ==
    /\ [](modelCalls <= 10)
    /\ [](SendFinished => (ReturnedFirstPlain \/ FailedAfterTenth))
    /\ <>SendFinished

\* C37, amended: for one user message sendMessage calls the model at most 10
\* times.  It ends by returning the first response without tool calls, by
\* failing with 'Too many tool call iterations' after the 10th response that
\* still has tool calls (and in no other case with that error), or by failing
\* with the error of the model lookup or of a model call; and it does end
\* whenever every promise it awaits settles.
SendMessageTerminates ==
    /\ [](modelCalls <= 10)
    /\ [](SendFinished => (ReturnedFirstPlain \/ FailedAfterTenth \/ FailedWithModelError))
    /\ [](sendOutcome.message = "Too many tool call iterations" => FailedAfterTenth)
    /\ PromisesSettle =>
          /\ (withTools = 10) ~> FailedAfterTenth
          /\ <>SendFinished

\* ten responses in a row carried tool calls, all were executed, and the call failed
\* with 'Too many tool call iterations'
TenthResponseFails ==
    /\ FailedAfterTenth
    /\ sendPc = "threw"
    /\ turn.assistant = 10
    /\ turn.tool >= 10

Has(i, tag) == FirstIndex(stages[i], tag) > 0

\* the call's tool ran to its result
Succeeded(i) == \E tag \in {"overwrite", "create", "read", "list"} : Has(i, tag)

\* the call failed: unknown tool, invalid parameters, or an execution that was
\* denied by the security check or ended in an error
Failed(i) ==
    \/ Has(i, "not_found")
    \/ Has(i, "invalid")
    \/ Has(i, "error")

\* C38: a tool call that fails at any stage does not abort the turn: its failure
\* is the 'tool' message of that call, and the loop has moved on to the calls
\* after it, each of which gets its own message once it is processed.
FailureDoesNotAbort ==
    \A i \in 1..Len(toolCalls) :
        Failed(i) =>
            /\ callIdx > i
            /\ Len(conversation) >= i
            /\ conversation[i].role = "tool"
            /\ conversation[i].toolCallId = i
            /\ conversation[i].content.prefix = "Tool execution failed: "
            /\ callIdx <= Len(toolCalls) =>
                  pc \in {"create", "should_confirm", "confirm", "execute"} \cup ExecutePcs
            /\ \A j \in (i + 1)..(callIdx - 1) :
                  /\ stages[j] # <<>>
                  /\ conversation[j].toolCallId = j
            /\ callIdx = Len(toolCalls) + 1 => Len(conversation) = Len(toolCalls)

\* the first call failed and the second one, processed after it, ran to its result
FailedThenSucceeded ==
    /\ Len(toolCalls) = 2
    /\ callIdx = 3
    /\ Failed(1)
    /\ conversation[1].content.prefix = "Tool execution failed: "
    /\ Succeeded(2)
    /\ conversation[2].content.prefix = ""

\* C39: retry never finishes without having invoked the operation at least once,
\* and the value it throws is the error raised by its last invocation, for every
\* maxAttempts including 0.
RetryInvokesBeforeFinishing ==
    retryPc \in {"returned", "thrown"} =>
        /\ Len(Calls) >= 1
        /\ retryPc = "thrown" =>
              /\ thrown # Undefined
              /\ thrown = Calls[Len(Calls)].error

====
